---- MODULE Spec2Model ----
(***************************************************************************)
(* One-Key Orchestra: the transport clock (BeatTracker), the timing        *)
(* evaluator (BeatTracker.evaluateTiming), the loop lifecycle manager and  *)
(* lookahead scheduler (AudioEngine), the input debouncer (InputHandler)   *)
(* and the coordinator (Game, main.js).                                    *)
(*                                                                         *)
(* Numbers.  JavaScript numbers are modelled by integers, exactly:         *)
(*  - performance.now() is a whole number of milliseconds, `now`;          *)
(*  - audioCtx.currentTime is a number of seconds with millisecond         *)
(*    resolution; ctx.currentTime holds its count of milliseconds;         *)
(*  - a field that stores a clock reading (startTime, pausedAt,            *)
(*    totalPausedTime) holds 1000 times its JavaScript value, so that a    *)
(*    reading of either clock is an integer and arithmetic that mixes the  *)
(*    two clocks is still exact;                                           *)
(*  - an elapsed time in milliseconds is a whole number of milliseconds;   *)
(*  - a beat duration and a timing offset are counted in quarters of a     *)
(*    millisecond (60000/128 = 468.75 ms is 1875 quarters);                *)
(*  - a fraction of a beat is a reduced pair <<numerator, denominator>>.   *)
(* Floating-point rounding is not modelled.                                *)
(***************************************************************************)
EXTENDS Integers, Sequences, FiniteSets, TLC

VARIABLES
    now,          \* performance.now(), in ms
    ctx,          \* the AudioContext: [created, currentTime (ms)]
    beatTracker,  \* the BeatTracker object
    inputHandler, \* the InputHandler object
    audioEngine,  \* the AudioEngine object
    game,         \* the Game object
    timers,       \* pending setTimeout callbacks: set of [id, due (ms on the clock `now`)]
    groups,       \* the sound-event groups that exist: id -> [channel, start, end, stopped]
    inputs,       \* the number of inputs (user events, calls) made so far
    ticks,        \* the number of times the clocks have advanced so far
    callbacks,    \* the onNoteStart/onNoteEnd callbacks made (history, kept by the
                  \* input handler's own specification, read by the properties only)
    lastOp,       \* what the last step did (history, read by the properties only)
    run           \* history of the transport's current run (read by the properties only)

vars == <<now, ctx, beatTracker, inputHandler, audioEngine, game, timers, groups,
          inputs, ticks, callbacks, lastOp, run>>

(***************************************************************************)
(* Bounds of the model.                                                    *)
(***************************************************************************)
\* advances of the clocks in one behaviour
MaxTicks == 5
\* inputs of one behaviour: user events of the game, calls on the transport
MaxInputs == 3
\* startGame calls that may be waiting for initialize() at once
MaxStarting == 2
\* the largest elapsed time (ms) at which a hit is evaluated
MaxElapsed == 2500

Null == << >>
Some(v) == <<v>>

\* A JavaScript number read from a field that may hold null: null coerces to 0.
Num(x) == IF x = Null THEN 0 ELSE x[1]

Abs(x) == IF x < 0 THEN -x ELSE x

\* JavaScript's % : the remainder has the sign of the dividend (b > 0).
JsRem(a, b) == IF a >= 0 THEN a % b ELSE -((-a) % b)

\* Math.floor(a / b) for b > 0.
Floor(a, b) == a \div b

RECURSIVE GCD(_, _)
GCD(a, b) == IF b = 0 THEN a ELSE GCD(b, a % b)

\* The fraction n/d (d > 0), reduced.
Frac(n, d) ==
    LET g == GCD(Abs(n), d)
    IN  <<n \div g, d \div g>>

(***************************************************************************)
(* Genres.js: the tempo of each genre preset.                              *)
(***************************************************************************)
GENRES == {"pop", "lofi", "house"}

GenreBpm(genreId) ==
    CASE genreId = "pop" -> 100
      [] genreId = "lofi" -> 75
      [] genreId = "house" -> 128

BPMS == {GenreBpm(g) : g \in GENRES}

(***************************************************************************)
(* BeatTracker.js                                                          *)
(***************************************************************************)

\* 60000 / bpm milliseconds, in quarters of a millisecond.
BeatDurationOf(bpm) == 240000 \div bpm

\* constructor(bpm = 100)
BeatTrackerNew(bpm) ==
    [ bpm |-> bpm,
      beatDuration |-> BeatDurationOf(bpm),
      startTime |-> Null,
      isRunning |-> FALSE,
      isPaused |-> FALSE,
      pausedAt |-> Null,
      totalPausedTime |-> 0,
      barCount |-> 0,
      audioCtx |-> FALSE,
      perfectWindow |-> 50,
      goodWindow |-> 150 ]

\* The reading of the clock the tracker uses: audioCtx.currentTime (seconds) when a
\* context is attached, performance.now() (ms) otherwise; 1000 times the number read.
AudioReading(c) == c.currentTime
PerfReading(t) == 1000 * t
ClockReading(bt, t, c) == IF bt.audioCtx THEN AudioReading(c) ELSE PerfReading(t)

\* setAudioContext(ctx)
SetAudioContext(bt) == [bt EXCEPT !.audioCtx = TRUE]

\* start() reading performance.now() whether or not a context is attached
StartOnInputClock(bt, t, c) ==
    [bt EXCEPT !.startTime = Some(PerfReading(t)),
               !.isRunning = TRUE,
               !.barCount = 0]

\* start()
BT_Start(bt, t, c) ==
    [bt EXCEPT !.startTime = Some(ClockReading(bt, t, c)),
               !.isRunning = TRUE,
               !.barCount = 0]

\* stop() without the reset of the pause bookkeeping
StopKeepPause(bt) == [bt EXCEPT !.isRunning = FALSE, !.startTime = Null]

\* stop()
BT_Stop(bt) ==
    [bt EXCEPT !.isRunning = FALSE,
               !.startTime = Null,
               !.isPaused = FALSE,
               !.pausedAt = Null,
               !.totalPausedTime = 0]

\* pause() without its first statement
PauseUnguarded(bt, t, c) ==
    [bt EXCEPT !.isPaused = TRUE,
               !.pausedAt = Some(ClockReading(bt, t, c))]

\* pause()
BT_Pause(bt, t, c) ==
    IF ~bt.isRunning \/ bt.isPaused
    THEN bt
    ELSE [bt EXCEPT !.isPaused = TRUE,
                    !.pausedAt = Some(ClockReading(bt, t, c))]

\* resume() without the accumulation of the pause
ResumeNoAccumulate(bt, t, c) ==
    IF ~bt.isPaused
    THEN bt
    ELSE [bt EXCEPT !.isPaused = FALSE, !.pausedAt = Null]

\* resume() moving the origin forward by the pause instead of accumulating it
ResumeShiftOrigin(bt, t, c) ==
    IF ~bt.isPaused
    THEN bt
    ELSE [bt EXCEPT !.startTime = Some(Num(@) + (ClockReading(bt, t, c) - Num(bt.pausedAt))),
                    !.isPaused = FALSE,
                    !.pausedAt = Null]

\* resume()
BT_Resume(bt, t, c) ==
    IF ~bt.isPaused
    THEN bt
    ELSE [bt EXCEPT !.totalPausedTime = @ + (ClockReading(bt, t, c) - Num(bt.pausedAt)),
                    !.isPaused = FALSE,
                    !.pausedAt = Null]

\* setBPM(bpm)
BT_SetBPM(bt, bpm) == [bt EXCEPT !.bpm = bpm, !.beatDuration = BeatDurationOf(bpm)]

\* The elapsed time in ms computed from a clock reading r (1000 times the number
\* read): with a context, (r - startTime - totalPausedTime) * 1000 on numbers in
\* seconds; without, r - startTime - totalPausedTime on numbers in ms (every stored
\* reading is then a performance.now() reading, a multiple of 1000 here).
ElapsedFrom(bt, r) ==
    LET d == r - Num(bt.startTime) - bt.totalPausedTime
    IN  IF bt.audioCtx THEN d ELSE d \div 1000

\* getCurrentBeatInfo(): the elapsed ms it computes (now frozen at pausedAt while paused)
BeatInfoElapsed(bt, t, c) ==
    ElapsedFrom(bt, IF bt.isPaused THEN Num(bt.pausedAt) ELSE ClockReading(bt, t, c))

\* getCurrentBeatInfo() taking the nearest beat instead of the one begun
BeatInfoAtNearest(e, bpm) ==
    LET beatDur == BeatDurationOf(bpm)
        n == 4 * e
        fl == Floor(2 * n + beatDur, 2 * beatDur)    \* Math.round(totalBeats)
    IN  [ beat |-> JsRem(fl, 4) + 1,
          progress |-> Frac(JsRem(n, beatDur), beatDur),
          barNumber |-> Floor(fl, 4),
          totalBeats |-> Frac(n, beatDur) ]

\* getCurrentBeatInfo(): the result for an elapsed time of e ms at tempo bpm
BeatInfoAt(e, bpm) ==
    LET beatDur == BeatDurationOf(bpm)
        n == 4 * e                       \* totalBeats = n / beatDur
        fl == Floor(n, beatDur)          \* Math.floor(totalBeats)
    IN  [ beat |-> JsRem(fl, 4) + 1,
          progress |-> Frac(JsRem(n, beatDur), beatDur),
          barNumber |-> Floor(n, 4 * beatDur),
          totalBeats |-> Frac(n, beatDur) ]

\* getCurrentBeatInfo()
GetCurrentBeatInfo(bt, t, c) ==
    IF ~bt.isRunning \/ bt.startTime = Null
    THEN [beat |-> 1, progress |-> <<0, 1>>, barNumber |-> 0, totalBeats |-> <<0, 1>>]
    ELSE BeatInfoAt(BeatInfoElapsed(bt, t, c), bt.bpm)

\* Math.round(n / d) for d > 0: the nearest integer, a tie going up.
RoundTowardZero(n, d) == IF n >= 0 THEN n \div d ELSE -((-n) \div d)
MathRound(n, d) == Floor(2 * n + d, 2 * d)

\* evaluateTiming(hitTime) computing the elapsed ms from hitTime on either clock
TimingElapsedFromHit(bt, hitTime, c) == ElapsedFrom(bt, PerfReading(hitTime))

\* evaluateTiming(hitTime): the elapsed ms it computes
TimingElapsed(bt, hitTime, c) ==
    ElapsedFrom(bt, IF bt.audioCtx THEN AudioReading(c) ELSE PerfReading(hitTime))

\* the accuracy tier of an offset (in quarters of a ms)
AccuracyExclusive(bt, offset) ==
    IF Abs(offset) < 4 * bt.perfectWindow THEN "perfect"
    ELSE IF Abs(offset) < 4 * bt.goodWindow THEN "good"
    ELSE "off"
Accuracy(bt, offset) ==
    IF Abs(offset) <= 4 * bt.perfectWindow THEN "perfect"
    ELSE IF Abs(offset) <= 4 * bt.goodWindow THEN "good"
    ELSE "off"

\* evaluateTiming(hitTime) without its first statement
EvaluateTimingUnguarded(bt, hitTime, c) ==
    LET n == 4 * TimingElapsed(bt, hitTime, c)
        nearestBeatIndex == MathRound(n, bt.beatDuration)
        offset == n - nearestBeatIndex * bt.beatDuration
    IN  [ accuracy |-> Accuracy(bt, offset),
          nearestBeat |-> JsRem(nearestBeatIndex, 4) + 1,
          offset |-> offset,
          barNumber |-> Floor(nearestBeatIndex, 4) ]

\* evaluateTiming(hitTime); offset is in quarters of a ms
EvaluateTiming(bt, hitTime, c) ==
    IF ~bt.isRunning \/ bt.startTime = Null
    THEN [accuracy |-> "off", nearestBeat |-> 1, offset |-> 0, barNumber |-> 0]
    ELSE LET n == 4 * TimingElapsed(bt, hitTime, c)   \* beatPosition = n / beatDuration
             nearestBeatIndex == MathRound(n, bt.beatDuration)
             offset == n - nearestBeatIndex * bt.beatDuration
         IN  [ accuracy |-> Accuracy(bt, offset),
               nearestBeat |-> JsRem(nearestBeatIndex, 4) + 1,
               offset |-> offset,
               barNumber |-> Floor(nearestBeatIndex, 4) ]

(***************************************************************************)
(* The loop lifecycle manager: AudioEngine.activeLoops and the groups      *)
(***************************************************************************)

\* Map keys: the beats 1..4 and 'drums'.
DRUMS == "drums"
BeatKey(beat) == ToString(beat)
INSTRUMENT_KEYS == {BeatKey(b) : b \in 1..4}

\* A Map is the set of its entries <<key, value>>.
MapGet(m, k) == {e[2] : e \in {x \in m : x[1] = k}}
MapDelete(m, k) == {e \in m : e[1] # k}
MapSetKeepOld(m, k, v) == m \cup {<<k, v>>}
MapSet(m, k, v) == MapDelete(m, k) \cup {<<k, v>>}

CeilDiv(a, b) == -((-a) \div b)

\* n/d beats in ms, rounded up to a whole ms; bd is the beat duration in quarter ms.
BeatsMs(n, d, bd) == CeilDiv(n * bd, 4 * d)

\* The time from a group's start to the scheduled stop of its last source, in ms
\* (rounded up to a whole ms, so that for a whole ms t the group has a source that
\* has not reached its stop exactly when t < start + span).
GroupSpan(key, genreId, bd) ==
    CASE key = DRUMS /\ genreId = "pop" ->
            \* open hi-hat 15 at 3.75 beats + swing 0.02, lasting 0.12
            BeatsMs(15, 4, bd) + 20 + 120
      [] key = DRUMS /\ genreId = "lofi" ->
            \* hi-hat 7 at 3.5 beats + swing 0.06 + humanize (at least -0.01), lasting 0.05
            BeatsMs(7, 2, bd) + 60 - 10 + 50
      [] key = DRUMS /\ genreId = "house" ->
            \* kick at 3.5 beats, stopped 0.35 later
            BeatsMs(7, 2, bd) + 350
      [] key = "1" ->
            \* melody note 7 at 3.5 beats, 0.45 beats long, stopped 0.1 ('vocal') or 0.05 later
            BeatsMs(79, 20, bd) + (IF genreId = "house" THEN 100 ELSE 50)
      [] key = "2" ->
            \* pad oscillators stopped at measureDuration + 0.5
            BeatsMs(4, 1, bd) + 500
      [] key = "3" ->
            \* bass note at 2 beats, 1.9 beats long, stopped 0.1 later
            BeatsMs(39, 10, bd) + 100
      [] key = "4" ->
            \* wood block at 3.5 beats, stopped 0.1 later
            BeatsMs(7, 2, bd) + 100

\* The smallest identity no existing group has.
NewId(g) == CHOOSE i \in 0..Cardinality(DOMAIN g) :
                i \notin DOMAIN g /\ \A j \in 0..(i - 1) : j \in DOMAIN g

\* constructor() with a polling interval longer than the horizon
AudioEngineNewSlowPoll ==
    [ ctx |-> FALSE,
      isInitialized |-> FALSE,
      activeLoops |-> {},
      bpm |-> 100,
      beatDuration |-> BeatDurationOf(100),
      schedulerTimerId |-> Null,
      nextLoopTime |-> 0,
      scheduleAheadTime |-> 100,
      lookahead |-> 125,
      isDrumsPlaying |-> FALSE,
      currentGenreId |-> "pop" ]

\* constructor()
AudioEngineNew ==
    [ ctx |-> FALSE,
      isInitialized |-> FALSE,
      activeLoops |-> {},
      bpm |-> 100,
      beatDuration |-> BeatDurationOf(100),    \* 60 / bpm seconds, in quarter ms
      schedulerTimerId |-> Null,
      nextLoopTime |-> 0,                      \* seconds, in ms
      scheduleAheadTime |-> 100,               \* 0.1 s, in ms
      lookahead |-> 25,
      isDrumsPlaying |-> FALSE,
      currentGenreId |-> "pop" ]

\* this.beatDuration * 4, in ms
MeasureMs(ae) == (ae.beatDuration * 4) \div 4

(***************************************************************************)
(* The engine's methods act on w = [ae, groups, timers, log, threw, at]:   *)
(* the engine, the groups, the pending timers, and (history) the installs  *)
(* the current step has made, whether a call has thrown, and the audio     *)
(* clock's reading during the step.                                        *)
(***************************************************************************)

\* the stop handle of a group without the try/catch around each source's stop(),
\* on a platform where stop() of a source that has ended or was stopped throws
StopGroupUncaught(w, id) ==
    [w EXCEPT !.groups[id].stopped = TRUE,
              !.threw = @ \/ w.groups[id].stopped \/ ~(w.at < w.groups[id].end)]

\* the stop handle of a group: every source's stop(), each in its try/catch
StopGroup(w, id) == [w EXCEPT !.groups[id].stopped = TRUE]

RECURSIVE StopGroups(_, _)
StopGroups(w, ids) ==
    IF ids = {} THEN w
    ELSE LET id == CHOOSE i \in ids : TRUE
         IN  StopGroups(StopGroup(w, id), ids \ {id})

\* activeLoops.set(key, {stop}) at the end of play*Loop: a new group starting at
\* `start`; `held` are the groups the channel held when the trigger began.
Install(w, key, start, held) ==
    LET id == NewId(w.groups)
        g == [ channel |-> key, start |-> start,
               end |-> start + GroupSpan(key, w.ae.currentGenreId, w.ae.beatDuration),
               stopped |-> FALSE ]
    IN  [w EXCEPT !.groups = [i \in DOMAIN w.groups \cup {id} |->
                                IF i = id THEN g ELSE w.groups[i]],
                  !.ae.activeLoops = MapSet(@, key, id),
                  !.log = Append(@, [ channel |-> key, id |-> id, start |-> start,
                                      held |-> held,
                                      heldStopped |-> \A h \in held : w.groups[h].stopped ])]

\* stopLoop(beat)
StopLoop(w, key) ==
    LET loop == MapGet(w.ae.activeLoops, key)
    IN  IF loop # {}
        THEN [StopGroups(w, loop) EXCEPT !.ae.activeLoops = MapDelete(@, key)]
        ELSE w

\* playNote(beat, barNumber, accuracy, holdDuration)
PlayNote(w, c, beat, barNumber) ==
    IF ~w.ae.isInitialized THEN w
    ELSE IF barNumber < 0
    THEN [w EXCEPT !.threw = TRUE]     \* chords[negative] is undefined: chord.root throws
    ELSE LET key == BeatKey(beat)
             held == MapGet(w.ae.activeLoops, key)
             w1 == StopLoop(w, key)
         IN  IF beat \in 1..4
             THEN Install(w1, key, c.currentTime, held)   \* play*Loop: now = ctx.currentTime
             ELSE w1

\* playDrumLoop(isDissonant, time)
PlayDrumLoop(w, time) ==
    Install(w, DRUMS, time, MapGet(w.ae.activeLoops, DRUMS))

\* scheduleLoop(time)
ScheduleLoop(w, time) ==
    IF w.ae.isDrumsPlaying THEN PlayDrumLoop(w, time) ELSE w

\* the while loop of scheduler()
RECURSIVE SchedulerLoop(_, _)
SchedulerLoop(w, c) ==
    IF w.ae.nextLoopTime < c.currentTime + w.ae.scheduleAheadTime
    THEN SchedulerLoop([ScheduleLoop(w, w.ae.nextLoopTime)
                            EXCEPT !.ae.nextLoopTime = @ + MeasureMs(w.ae)], c)
    ELSE w

\* the loop as a single conditional
SchedulerOnce(w, c) ==
    IF w.ae.nextLoopTime < c.currentTime + w.ae.scheduleAheadTime
    THEN [ScheduleLoop(w, w.ae.nextLoopTime) EXCEPT !.ae.nextLoopTime = @ + MeasureMs(w.ae)]
    ELSE w

\* the scheduling pass of scheduler(), before the timer is re-armed
SchedulerPass(w, c) == SchedulerLoop(w, c)

\* setTimeout(callback, delay) at time t: the new timer's id
NewTimerId(tm) == CHOOSE i \in 1..(Cardinality(tm) + 1) :
                      (\A x \in tm : x.id # i) /\ \A j \in 1..(i - 1) : \E x \in tm : x.id = j

\* scheduler() without its setTimeout
SchedulerNoRearm(w, t, c) ==
    IF ~w.ae.isDrumsPlaying THEN w ELSE SchedulerPass(w, c)

\* scheduler()
Scheduler(w, t, c) ==
    IF ~w.ae.isDrumsPlaying THEN w
    ELSE LET w1 == SchedulerPass(w, c)
             id == NewTimerId(w1.timers)
         IN  [w1 EXCEPT !.ae.schedulerTimerId = Some(id),
                        !.timers = @ \cup {[id |-> id, due |-> t + w1.ae.lookahead]}]

\* startContinuousDrums() without its first statement
StartContinuousDrumsUnguarded(w, t, c) ==
    IF ~w.ae.ctx
    THEN [w EXCEPT !.ae.isDrumsPlaying = TRUE, !.threw = TRUE]
    ELSE Scheduler([w EXCEPT !.ae.isDrumsPlaying = TRUE,
                             !.ae.nextLoopTime = c.currentTime], t, c)

\* startContinuousDrums()
StartContinuousDrums(w, t, c) ==
    IF w.ae.isDrumsPlaying THEN w
    ELSE IF ~w.ae.ctx
    THEN [w EXCEPT !.ae.isDrumsPlaying = TRUE, !.threw = TRUE]  \* this.ctx.currentTime on null
    ELSE Scheduler([w EXCEPT !.ae.isDrumsPlaying = TRUE,
                             !.ae.nextLoopTime = c.currentTime], t, c)

\* stopContinuousDrums() without clearTimeout
StopContinuousDrumsKeepTimer(w) ==
    StopLoop([w EXCEPT !.ae.isDrumsPlaying = FALSE, !.ae.schedulerTimerId = Null], DRUMS)

\* stopContinuousDrums()
StopContinuousDrums(w) ==
    LET w1 == [w EXCEPT !.ae.isDrumsPlaying = FALSE]
        w2 == IF w1.ae.schedulerTimerId # Null
              THEN [w1 EXCEPT !.timers = {x \in @ : x.id # w1.ae.schedulerTimerId[1]},
                              !.ae.schedulerTimerId = Null]
              ELSE w1
    IN  StopLoop(w2, DRUMS)

\* stopAll()
StopAll(w) ==
    LET w1 == StopContinuousDrums(w)
        w2 == StopGroups(w1, {e[2] : e \in w1.ae.activeLoops})
    IN  [w2 EXCEPT !.ae.activeLoops = {}]

\* stopInstruments() without the test that spares the 'drums' key
StopInstrumentsAndDrums(w) == StopAll(w)

\* stopInstruments()
StopInstruments(w) ==
    LET es == {e \in w.ae.activeLoops : e[1] # DRUMS}
    IN  [StopGroups(w, {e[2] : e \in es}) EXCEPT !.ae.activeLoops = @ \ es]

\* playMetronomeClick(isDownbeat): one oscillator of 20 ms that no map entry holds
PlayMetronomeClick(w, c) ==
    IF ~w.ae.isInitialized THEN w
    ELSE LET id == NewId(w.groups)
             g == [ channel |-> "click", start |-> c.currentTime,
                    end |-> c.currentTime + 20, stopped |-> FALSE ]
         IN  [w EXCEPT !.groups = [i \in DOMAIN w.groups \cup {id} |->
                                     IF i = id THEN g ELSE w.groups[i]]]

\* setBPM(bpm)
AE_SetBPM(w, bpm) == [w EXCEPT !.ae.bpm = bpm, !.ae.beatDuration = BeatDurationOf(bpm)]

\* setGenre(genreId); getGenre falls back to pop for an unknown name
SetGenre(w, t, c, genreId) ==
    LET id == IF genreId \in GENRES THEN genreId ELSE "pop"
        w1 == AE_SetBPM([w EXCEPT !.ae.currentGenreId = genreId], GenreBpm(id))
    IN  IF w1.ae.isDrumsPlaying
        THEN StartContinuousDrums(StopContinuousDrums(w1), t, c)
        ELSE w1

(***************************************************************************)
(* InputHandler.js                                                         *)
(***************************************************************************)

\* constructor()
InputHandlerNew ==
    [ isHolding |-> FALSE,
      holdStartTime |-> Null,
      lastTriggerTime |-> 0,
      debounceMs |-> 100,
      listening |-> FALSE ]      \* whether start() has attached the listeners

\* start()
IH_Start(ih) == [ih EXCEPT !.listening = TRUE]

\* stop()
IH_Stop(ih) == [ih EXCEPT !.listening = FALSE, !.isHolding = FALSE, !.holdStartTime = Null]

\* triggerNoteStart() without the debounce test
NoteStartFiresNoDebounce(ih, t) == ~ih.isHolding

\* triggerNoteStart(): whether onNoteStart(now) fires
NoteStartFires(ih, t) == ~(t - ih.lastTriggerTime < ih.debounceMs) /\ ~ih.isHolding

\* triggerNoteStart()
TriggerNoteStart(ih, t) ==
    IF NoteStartFires(ih, t)
    THEN [ih EXCEPT !.isHolding = TRUE, !.holdStartTime = Some(t), !.lastTriggerTime = t]
    ELSE ih

\* triggerNoteEnd()
TriggerNoteEnd(ih) ==
    IF ~ih.isHolding THEN ih
    ELSE [ih EXCEPT !.isHolding = FALSE, !.holdStartTime = Null]


(***************************************************************************)
(* History                                                                 *)
(***************************************************************************)

\* the transport's run after start(): a start() on a transport that is not running
\* begins a run; one on a running transport disturbs it
RunAfterStart(bt, r) ==
    IF bt.isRunning THEN [r EXCEPT !.undisturbed = FALSE]
    ELSE [activeMs |-> 0, undisturbed |-> TRUE, bpm |-> bt.bpm, resumes |-> 0]

\* ... after setAudioContext(): attaching a clock to a running transport disturbs the run
RunAfterAttach(bt, r) ==
    IF bt.isRunning /\ ~bt.audioCtx THEN [r EXCEPT !.undisturbed = FALSE] ELSE r

\* ... after resume(): the pauses of the run that have ended
RunAfterResume(bt, r) ==
    IF bt.isRunning /\ bt.isPaused THEN [r EXCEPT !.resumes = @ + 1] ELSE r

\* ... after d ms: the time the transport has been running and not paused
RunAfterTick(bt, r, d) ==
    IF bt.isRunning /\ ~bt.isPaused THEN [r EXCEPT !.activeMs = @ + d] ELSE r

\* whether group g has, at audio time t, a source that has not reached its stop
Unfinished(g, t) == t < g.end

\* The groups that still exist at audio time t: those the map holds, and those not
\* stopped that have a source left.  A finished group the map still holds keeps only
\* its channel and whether it was stopped.
Collect(g, loops, t) ==
    LET held == {e[2] : e \in loops}
        keep == {i \in DOMAIN g : i \in held \/ (~g[i].stopped /\ Unfinished(g[i], t))}
    IN  [i \in keep |-> IF Unfinished(g[i], t) THEN g[i]
                        ELSE [g[i] EXCEPT !.start = 0, !.end = 0]]

World == [ae |-> audioEngine, groups |-> groups, timers |-> timers,
          log |-> << >>, threw |-> FALSE, at |-> ctx.currentTime]

Commit(w) == /\ audioEngine' = w.ae
             /\ groups' = w.groups
             /\ timers' = w.timers

(***************************************************************************)
(* The clocks                                                              *)
(***************************************************************************)
Advance(d) ==
    /\ now' = now + d
    /\ ctx' = IF ctx.created THEN [ctx EXCEPT !.currentTime = @ + d] ELSE ctx
    /\ groups' = Collect(groups, audioEngine.activeLoops, ctx'.currentTime)
    /\ run' = RunAfterTick(beatTracker, run, d)
    /\ lastOp' = [op |-> "tick"]
    /\ ticks' = ticks + 1
    /\ UNCHANGED <<beatTracker, inputHandler, audioEngine, game, timers, inputs, callbacks>>

(***************************************************************************)
(* main.js: the Game's event handlers                                      *)
(***************************************************************************)

\* The steps of the clocks (ms): one period of the scheduler's timer; up to the
\* horizon of the second measure at 100 BPM; a stall of the host longer than any
\* measure.
TickSteps == {AudioEngineNew.lookahead, 2300, 4750}

\* Time passes, from the first user gesture on (nothing depends on the time before
\* it).  A callback that is due runs before the clock is read again, and
\* initialize() resolves before time passes.
Tick(d) ==
    /\ ticks < MaxTicks
    /\ ctx.created
    /\ game.starting = 0
    /\ \A tm \in timers : tm.due > now
    /\ Advance(d)

\* startGame() up to `await this.audioEngine.initialize()`: initialize() creates the
\* AudioContext unless the engine is initialized
StartGameBegin ==
    /\ ~game.isPlaying
    /\ game.starting < MaxStarting
    /\ game' = [game EXCEPT !.starting = @ + 1]
    /\ IF audioEngine.isInitialized
       THEN UNCHANGED <<ctx, audioEngine>>
       ELSE /\ ctx' = [created |-> TRUE, currentTime |-> 0]
            /\ audioEngine' = [audioEngine EXCEPT !.ctx = TRUE]
    /\ lastOp' = [op |-> "startGameCall"]
    /\ UNCHANGED <<now, beatTracker, inputHandler, timers, groups, ticks, run, callbacks>>

StartGameCall ==
    /\ inputs < MaxInputs
    /\ inputs' = inputs + 1
    /\ StartGameBegin

\* startGame() after the await: the end of initialize(), then the rest of startGame()
StartGameContinue ==
    /\ game.starting > 0
    /\ LET bt == SetAudioContext(beatTracker)
           w == StartContinuousDrums([World EXCEPT !.ae.isInitialized = TRUE], now, ctx)
       IN  /\ Commit(w)
           /\ beatTracker' = BT_Start(bt, now, ctx)
           /\ run' = RunAfterStart(bt, RunAfterAttach(beatTracker, run))
           /\ lastOp' = [op |-> "startGame", log |-> w.log]
    /\ inputHandler' = IH_Start(inputHandler)
    /\ game' = [game EXCEPT !.isPlaying = TRUE, !.isPaused = FALSE, !.starting = @ - 1]
    /\ UNCHANGED <<now, ctx, inputs, ticks, callbacks>>

\* goHome()
GoHomeHandler ==
    /\ game.isPlaying
    /\ beatTracker' = BT_Stop(beatTracker)
    /\ inputHandler' = IH_Stop(inputHandler)
    /\ Commit(StopInstruments(World))
    /\ game' = [game EXCEPT !.isPlaying = FALSE, !.isPaused = FALSE]
    /\ lastOp' = [op |-> "goHome"]
    /\ UNCHANGED <<now, ctx, ticks, run, callbacks>>

GoHome ==
    /\ inputs < MaxInputs
    /\ inputs' = inputs + 1
    /\ GoHomeHandler

\* togglePause(): the pause button, or Escape while playing
TogglePauseHandler ==
    /\ game.isPlaying
    /\ game' = [game EXCEPT !.isPaused = ~@]
    /\ IF game'.isPaused
       THEN /\ beatTracker' = BT_Pause(beatTracker, now, ctx)
            /\ inputHandler' = IH_Stop(inputHandler)
            /\ Commit(StopAll(World))
       ELSE /\ beatTracker' = BT_Resume(beatTracker, now, ctx)
            /\ inputHandler' = IH_Start(inputHandler)
            /\ UNCHANGED <<audioEngine, groups, timers>>
    /\ run' = IF game'.isPaused THEN run ELSE RunAfterResume(beatTracker, run)
    /\ lastOp' = [op |-> "togglePause"]
    /\ UNCHANGED <<now, ctx, ticks, callbacks>>

TogglePause ==
    /\ inputs < MaxInputs
    /\ inputs' = inputs + 1
    /\ TogglePauseHandler

\* click on a genre button of the start screen
GenreClickHandler(genreId) ==
    /\ LET w == SetGenre(World, now, ctx, genreId)
       IN  /\ Commit(w)
           /\ beatTracker' = BT_SetBPM(beatTracker, w.ae.bpm)
           /\ lastOp' = [ op |-> "setGenre", log |-> w.log,
                          wasDrumsPlaying |-> audioEngine.isDrumsPlaying,
                          fromBpm |-> audioEngine.bpm,
                          before |-> DOMAIN groups ]
    /\ UNCHANGED <<now, ctx, inputHandler, game, ticks, run, callbacks>>

\* the genre buttons are on the start screen, which is hidden while playing
GenreClick(genreId) ==
    /\ ~game.isPlaying
    /\ inputs < MaxInputs
    /\ inputs' = inputs + 1
    /\ GenreClickHandler(genreId)

\* keydown of the space bar, or touchstart: triggerNoteStart(), whose onNoteStart is
\* handleNoteStart(timestamp)
HandleNoteStart ==
    /\ inputHandler.listening
    /\ inputHandler' = TriggerNoteStart(inputHandler, now)
    /\ IF NoteStartFires(inputHandler, now)
       THEN LET timing == EvaluateTiming(beatTracker, now, ctx)
                w == PlayNote(World, ctx, timing.nearestBeat, timing.barNumber)
            IN  /\ Commit(w)
                /\ lastOp' = [ op |-> "playNote", timing |-> timing, log |-> w.log,
                               fired |-> TRUE ]
       ELSE /\ UNCHANGED <<audioEngine, groups, timers>>
            /\ lastOp' = [op |-> "playNote", fired |-> FALSE, log |-> << >>]
    /\ UNCHANGED <<now, ctx, beatTracker, game, ticks, run, callbacks>>

NoteStartInput ==
    /\ inputs < MaxInputs
    /\ inputs' = inputs + 1
    /\ HandleNoteStart

\* keyup of the space bar, or touchend: triggerNoteEnd()
NoteEndInput ==
    /\ inputHandler.listening
    /\ inputHandler.isHolding
    /\ inputHandler' = TriggerNoteEnd(inputHandler)
    /\ lastOp' = [op |-> "noteEnd"]
    /\ UNCHANGED <<now, ctx, beatTracker, audioEngine, game, timers, groups, inputs,
                   ticks, run, callbacks>>

\* the callback of setTimeout(() => this.scheduler(), this.lookahead)
SchedulerTimer ==
    \E tm \in timers :
        /\ tm.due <= now
        /\ LET w == Scheduler([World EXCEPT !.timers = @ \ {tm}], now, ctx)
           IN  /\ Commit(w)
               /\ lastOp' = [ op |-> "scheduler", log |-> w.log, at |-> ctx.currentTime,
                              from |-> audioEngine.nextLoopTime,
                              ran |-> audioEngine.isDrumsPlaying ]
        /\ UNCHANGED <<now, ctx, beatTracker, inputHandler, game, inputs, ticks, run, callbacks>>

EmptyGroups == [i \in {} |-> 0]

Init ==
    /\ now = 0
    /\ ctx = [created |-> FALSE, currentTime |-> 0]
    /\ beatTracker = BeatTrackerNew(100)
    /\ inputHandler = InputHandlerNew
    /\ audioEngine = AudioEngineNew
    /\ game = [isPlaying |-> FALSE, isPaused |-> FALSE, starting |-> 0]
    /\ timers = {}
    /\ groups = EmptyGroups
    /\ inputs = 0
    /\ ticks = 0
    /\ callbacks = << >>
    /\ lastOp = [op |-> "init"]
    /\ run = [activeMs |-> 0, undisturbed |-> TRUE, bpm |-> 100, resumes |-> 0]

Next ==
    \/ \E d \in TickSteps : Tick(d)
    \/ StartGameCall
    \/ StartGameContinue
    \/ GoHome
    \/ TogglePause
    \/ \E g \in GENRES : GenreClick(g)
    \/ NoteStartInput
    \/ NoteEndInput
    \/ SchedulerTimer

Spec == Init /\ [][Next]_vars

(***************************************************************************)
(* Properties of the loop lifecycle manager and the lookahead scheduler    *)
(***************************************************************************)

\* the installs the last step made, in order
LastLog ==
    IF lastOp.op \in {"startGame", "setGenre", "playNote", "scheduler"}
    THEN lastOp.log ELSE << >>

\* the groups that have, at audio time t, a source left that was never stopped
Sounding(t) == {i \in DOMAIN groups : ~groups[i].stopped /\ Unfinished(groups[i], t)}

\* C1: on every channel, 'drums' included, whenever a group is installed on a
\* channel that already holds a group, the old group's stop has been invoked
\* before the new group is installed.
C1_StopBeforeInstall ==
    \A i \in 1..Len(LastLog) : LastLog[i].heldStopped

\* C2: the active-loop map holds at most one group per channel, and after a
\* playNote that installs a group on a channel that held an unfinished one, the
\* channel's only entry is the group the second call created.
C2_OneGroupPerChannel ==
    /\ \A k \in INSTRUMENT_KEYS \cup {DRUMS} :
           Cardinality(MapGet(audioEngine.activeLoops, k)) <= 1
    /\ lastOp.op = "playNote" =>
           \A i \in 1..Len(LastLog) :
               MapGet(audioEngine.activeLoops, LastLog[i].channel) = {LastLog[i].id}

\* a second playNote on a channel whose first group has not finished
C2_Witness ==
    /\ lastOp.op = "playNote"
    /\ \E i \in 1..Len(LastLog) :
           \E h \in LastLog[i].held :
               /\ h \in DOMAIN groups
               /\ h # LastLog[i].id
               /\ Unfinished(groups[h], ctx.currentTime)
               /\ groups[h].stopped

\* C3: when togglePause enters the paused state, every group scheduled earlier
\* that has not finished has had its stop invoked, the active-loop map is empty,
\* isDrumsPlaying is false and no scheduler timer is pending.
C3_PauseStopsEverything ==
    (lastOp.op = "togglePause" /\ game.isPaused) =>
        /\ Sounding(ctx.currentTime) = {}
        /\ audioEngine.activeLoops = {}
        /\ ~audioEngine.isDrumsPlaying
        /\ timers = {}

\* C4: after a pause followed by a resume through togglePause the scheduler is
\* Running again: isDrumsPlaying is true, a timer is pending and nextLoopTime is
\* not before the audio clock's reading at the resume.
C4_ResumeRestartsScheduler ==
    (lastOp.op = "togglePause" /\ ~game.isPaused) =>
        /\ audioEngine.isDrumsPlaying
        /\ timers # {}
        /\ audioEngine.nextLoopTime >= ctx.currentTime

\* C5: a scheduling pass hands off every due background measure exactly once, in
\* increasing order of due time, each exactly one measure (4 x beatDuration) after
\* the one before: the measures handed off are the consecutive ones from the
\* nextLoopTime the pass found, each is due before now + scheduleAheadTime, and at
\* the end of the pass nextLoopTime >= now + scheduleAheadTime.
C5_PassHandsOffEveryDueMeasureOnce ==
    (lastOp.op = "scheduler" /\ lastOp.ran) =>
        /\ \A i \in 1..Len(LastLog) :
               /\ LastLog[i].channel = DRUMS
               /\ LastLog[i].start = lastOp.from + (i - 1) * MeasureMs(audioEngine)
               /\ LastLog[i].start < lastOp.at + audioEngine.scheduleAheadTime
        /\ \A i, j \in 1..Len(LastLog) : i # j => LastLog[i].id # LastLog[j].id
        /\ audioEngine.nextLoopTime = lastOp.from + Len(LastLog) * MeasureMs(audioEngine)
        /\ audioEngine.nextLoopTime >= lastOp.at + audioEngine.scheduleAheadTime

\* a pass that runs late by more than a measure and hands off two measures
C5_Witness ==
    /\ lastOp.op = "scheduler"
    /\ lastOp.ran
    /\ Len(LastLog) >= 2
    /\ lastOp.at > lastOp.from + MeasureMs(audioEngine)

\* C9: when setGenre switches the tempo from 100 to 128 BPM while the scheduler
\* is Running, the scheduler is restarted with measures 1875 ms apart, and no
\* background group scheduled before the switch is still sounding at or after the
\* start of the first group scheduled after the switch.
C9_NoOverlapAcrossGenreSwitch ==
    (/\ lastOp.op = "setGenre"
     /\ lastOp.wasDrumsPlaying
     /\ lastOp.fromBpm = 100
     /\ audioEngine.bpm = 128) =>
        /\ audioEngine.isDrumsPlaying
        /\ timers # {}
        /\ MeasureMs(audioEngine) = 1875
        /\ Len(LastLog) >= 1
        /\ audioEngine.nextLoopTime = LastLog[Len(LastLog)].start + 1875
        /\ \A i \in Sounding(LastLog[1].start) :
               groups[i].channel = DRUMS => i \notin lastOp.before

(***************************************************************************)
(* The transport clock on its own: a BeatTracker driven through its API    *)
(***************************************************************************)

\* calls on the transport in one behaviour
MaxCalls == 5

\* The steps of the clocks between two calls (ms).
BTSteps == {100, 700}

\* A caller's program over the BeatTracker: the page has been open for a quarter
\* of a second when the tracker and an AudioContext are constructed.
InitBT ==
    /\ now = 250
    /\ ctx = [created |-> TRUE, currentTime |-> 0]
    /\ beatTracker = BeatTrackerNew(100)
    /\ inputHandler = InputHandlerNew
    /\ audioEngine = AudioEngineNew
    /\ game = [isPlaying |-> FALSE, isPaused |-> FALSE, starting |-> 0]
    /\ timers = {}
    /\ groups = EmptyGroups
    /\ inputs = 0
    /\ ticks = 0
    /\ callbacks = << >>
    /\ lastOp = [op |-> "init"]
    /\ run = [activeMs |-> 0, undisturbed |-> TRUE, bpm |-> 100, resumes |-> 0]

\* a call on the transport: the tracker after it, the run's history after it
Call(op, bt, r) ==
    /\ inputs < MaxCalls
    /\ inputs' = inputs + 1
    /\ beatTracker' = bt
    /\ run' = r
    /\ lastOp' = IF op = "start"
                 THEN [op |-> op, wasRunning |-> beatTracker.isRunning,
                       before |-> beatTracker]
                 ELSE [op |-> op]
    /\ UNCHANGED <<now, ctx, inputHandler, audioEngine, game, timers, groups, ticks,
                   callbacks>>

CallSetAudioContext ==
    /\ ~beatTracker.audioCtx
    /\ Call("setAudioContext", SetAudioContext(beatTracker), RunAfterAttach(beatTracker, run))

CallStart ==
    /\ Call("start", BT_Start(beatTracker, now, ctx), RunAfterStart(beatTracker, run))

CallStop ==
    /\ Call("stop", BT_Stop(beatTracker), run)

CallPause ==
    /\ Call("pause", BT_Pause(beatTracker, now, ctx), run)

CallResume ==
    /\ Call("resume", BT_Resume(beatTracker, now, ctx), RunAfterResume(beatTracker, run))

CallSetBPM(bpm) ==
    /\ bpm # beatTracker.bpm
    /\ Call("setBPM", BT_SetBPM(beatTracker, bpm), run)

\* time passes between two calls
TickBT(d) ==
    /\ ticks < MaxTicks
    /\ Advance(d)

NextBT ==
    \/ \E d \in BTSteps : TickBT(d)
    \/ CallSetAudioContext
    \/ CallStart
    \/ CallStop
    \/ CallPause
    \/ CallResume
    \/ \E bpm \in BPMS : CallSetBPM(bpm)

SpecBT == InitBT /\ [][NextBT]_vars

\* the elapsed musical time of the transport, in ms
Elapsed == BeatInfoElapsed(beatTracker, now, ctx)

\* C6: for a running BeatTracker with no tempo change, after any number of
\* pause/wait/resume cycles, on either time base, getCurrentBeatInfo() equals what
\* it returns on a never-paused transport with the same net active elapsed time.
C6_PauseDoesNotShiftPhase ==
    (/\ beatTracker.isRunning
     /\ run.undisturbed
     /\ beatTracker.bpm = run.bpm) =>
        GetCurrentBeatInfo(beatTracker, now, ctx) = BeatInfoAt(run.activeMs, run.bpm)

\* a transport that has been paused and resumed twice, having run in between
C6_Witness ==
    /\ beatTracker.isRunning
    /\ run.undisturbed
    /\ beatTracker.bpm = run.bpm
    /\ ~beatTracker.isPaused
    /\ run.resumes >= 2
    /\ beatTracker.totalPausedTime > 0
    /\ run.activeMs > 0

\* C7: while the transport is running, whatever the calls made on it, the elapsed
\* musical time is >= 0 and getCurrentBeatInfo() returns beat in 1..4, progress in
\* [0, 1), barNumber >= 0 and totalBeats >= 0.
C7_ElapsedNonNegative ==
    beatTracker.isRunning =>
        LET info == GetCurrentBeatInfo(beatTracker, now, ctx)
        IN  /\ Elapsed >= 0
            /\ info.beat \in 1..4
            /\ info.progress[1] >= 0
            /\ info.progress[1] < info.progress[2]
            /\ info.barNumber >= 0
            /\ info.totalBeats[1] >= 0

\* C8: start() on a transport that is already running changes none of startTime,
\* totalPausedTime, isPaused, pausedAt and isRunning.
C8_StartWhileRunningIsNoOp ==
    (lastOp.op = "start" /\ lastOp.wasRunning) =>
        /\ beatTracker.startTime = lastOp.before.startTime
        /\ beatTracker.totalPausedTime = lastOp.before.totalPausedTime
        /\ beatTracker.isPaused = lastOp.before.isPaused
        /\ beatTracker.pausedAt = lastOp.before.pausedAt
        /\ beatTracker.isRunning = lastOp.before.isRunning

(***************************************************************************)
(* The timing evaluator: evaluateTiming on a running transport             *)
(***************************************************************************)

\* A tracker constructed at any of the tempos, to which an AudioContext may be
\* attached before it is started; a hit is evaluated e ms after start().
InitEval ==
    /\ now = 0
    /\ ctx = [created |-> TRUE, currentTime |-> 0]
    /\ \E bpm \in BPMS :
           /\ beatTracker = BeatTrackerNew(bpm)
           /\ run = [activeMs |-> 0, undisturbed |-> TRUE, bpm |-> bpm, resumes |-> 0]
    /\ inputHandler = InputHandlerNew
    /\ audioEngine = AudioEngineNew
    /\ game = [isPlaying |-> FALSE, isPaused |-> FALSE, starting |-> 0]
    /\ timers = {}
    /\ groups = EmptyGroups
    /\ inputs = 0
    /\ ticks = 0
    /\ callbacks = << >>
    /\ lastOp = [op |-> "init"]

EvalAttach ==
    /\ ~beatTracker.audioCtx
    /\ ~beatTracker.isRunning
    /\ ticks = 0
    /\ beatTracker' = SetAudioContext(beatTracker)
    /\ lastOp' = [op |-> "setAudioContext"]
    /\ UNCHANGED <<now, ctx, inputHandler, audioEngine, game, timers, groups, inputs,
                   ticks, run, callbacks>>

EvalStart ==
    /\ ~beatTracker.isRunning
    /\ ticks = 0
    /\ beatTracker' = BT_Start(beatTracker, now, ctx)
    /\ run' = RunAfterStart(beatTracker, run)
    /\ lastOp' = [op |-> "start"]
    /\ UNCHANGED <<now, ctx, inputHandler, audioEngine, game, timers, groups, inputs, ticks,
                   callbacks>>

\* e ms pass after start()
EvalWait(e) ==
    /\ beatTracker.isRunning
    /\ ticks = 0
    /\ Advance(e)

\* evaluateTiming(performance.now())
EvalHit ==
    /\ beatTracker.isRunning
    /\ lastOp.op # "evaluateTiming"
    /\ lastOp' = [ op |-> "evaluateTiming", e |-> run.activeMs,
                   result |-> EvaluateTiming(beatTracker, now, ctx) ]
    /\ UNCHANGED <<now, ctx, beatTracker, inputHandler, audioEngine, game, timers, groups,
                   inputs, ticks, run, callbacks>>

\* stop()
EvalStop ==
    /\ beatTracker.isRunning
    /\ lastOp.op # "evaluateTiming"
    /\ beatTracker' = BT_Stop(beatTracker)
    /\ lastOp' = [op |-> "stop"]
    /\ UNCHANGED <<now, ctx, inputHandler, audioEngine, game, timers, groups, inputs,
                   ticks, run, callbacks>>

\* The hit timestamps given to a transport that is not running.
IdleHitTimes == {0, now, MaxElapsed}

\* evaluateTiming(hitTime) on a transport that is not running
EvalHitNotRunning(hitTime) ==
    /\ ~beatTracker.isRunning
    /\ lastOp.op # "evaluateTimingNotRunning"
    /\ lastOp' = [ op |-> "evaluateTimingNotRunning", hitTime |-> hitTime,
                   before |-> beatTracker,
                   result |-> EvaluateTiming(beatTracker, hitTime, ctx) ]
    /\ UNCHANGED <<now, ctx, beatTracker, inputHandler, audioEngine, game, timers, groups,
                   inputs, ticks, run, callbacks>>

\* The timestamps, other than the time of the call, given to a running transport.
StaleHitTimes == {0, MaxElapsed}

\* evaluateTiming(hitTime) on a running transport, with a timestamp that is not
\* the time of the call
EvalHitAt(hitTime) ==
    /\ beatTracker.isRunning
    /\ hitTime # now
    /\ lastOp.op \notin {"evaluateTiming", "evaluateTimingAt"}
    /\ lastOp' = [ op |-> "evaluateTimingAt", hitTime |-> hitTime,
                   result |-> EvaluateTiming(beatTracker, hitTime, ctx) ]
    /\ UNCHANGED <<now, ctx, beatTracker, inputHandler, audioEngine, game, timers, groups,
                   inputs, ticks, run, callbacks>>

\* getCurrentBeatInfo() on a running transport
EvalBeatInfo ==
    /\ beatTracker.isRunning
    /\ lastOp.op \notin {"evaluateTiming", "evaluateTimingAt", "getCurrentBeatInfo"}
    /\ lastOp' = [ op |-> "getCurrentBeatInfo", e |-> run.activeMs,
                   result |-> GetCurrentBeatInfo(beatTracker, now, ctx) ]
    /\ UNCHANGED <<now, ctx, beatTracker, inputHandler, audioEngine, game, timers, groups,
                   inputs, ticks, run, callbacks>>

NextEval ==
    \/ EvalAttach
    \/ EvalStart
    \/ \E e \in 1..MaxElapsed : EvalWait(e)
    \/ EvalHit
    \/ EvalStop
    \/ \E hitTime \in IdleHitTimes : EvalHitNotRunning(hitTime)
    \/ \E hitTime \in StaleHitTimes : EvalHitAt(hitTime)
    \/ EvalBeatInfo

SpecEval == InitEval /\ [][NextEval]_vars

\* C10: for a running transport with elapsed time e >= 0 ms and beat duration d,
\* evaluateTiming returns, with k the integer nearest to e/d (the later one at
\* exactly half a beat), offset = e - k*d, nearestBeat = (k mod 4) + 1 and
\* barNumber = floor(k/4); at 100 BPM e = 605 gives beat 2, offset +5 ms, perfect,
\* and e = 780 gives beat 2, offset +180 ms, off.  (n and d are in quarters of a ms.)
C10_EvaluateTimingRoundsHalfUp ==
    lastOp.op = "evaluateTiming" =>
        LET n == 4 * lastOp.e
            d == beatTracker.beatDuration
            r == lastOp.result
        IN  /\ \E k \in 0..(n \div d + 1) :
                   /\ 2 * k * d - d <= 2 * n
                   /\ 2 * n < 2 * k * d + d
                   /\ r.offset = n - k * d
                   /\ r.nearestBeat = (k % 4) + 1
                   /\ r.barNumber = k \div 4
            /\ (beatTracker.bpm = 100 /\ lastOp.e = 605) =>
                   r.nearestBeat = 2 /\ r.offset = 4 * 5 /\ r.accuracy = "perfect"
            /\ (beatTracker.bpm = 100 /\ lastOp.e = 780) =>
                   r.nearestBeat = 2 /\ r.offset = 4 * 180 /\ r.accuracy = "off"

\* a hit exactly half a beat after beat 3 of the first bar, given to beat 4
C10_Witness ==
    /\ lastOp.op = "evaluateTiming"
    /\ 2 * 4 * lastOp.e = 5 * beatTracker.beatDuration
    /\ lastOp.result.nearestBeat = 4
    /\ lastOp.result.barNumber = 0
    /\ 2 * lastOp.result.offset = -beatTracker.beatDuration

\* C11: evaluateTiming classifies by the absolute offset with inclusive
\* thresholds: |offset| <= 50 ms is perfect, 50 < |offset| <= 150 ms is good,
\* |offset| > 150 ms is off, for early and late offsets alike; a hit exactly on a
\* beat gives offset 0 and perfect.  (Offsets are in quarters of a ms.)
C11_InclusiveThresholds ==
    lastOp.op = "evaluateTiming" =>
        LET r == lastOp.result
            a == IF r.offset < 0 THEN -r.offset ELSE r.offset
        IN  /\ (a <= 4 * 50) <=> (r.accuracy = "perfect")
            /\ (4 * 50 < a /\ a <= 4 * 150) <=> (r.accuracy = "good")
            /\ (a > 4 * 150) <=> (r.accuracy = "off")
            /\ ((4 * lastOp.e) % beatTracker.beatDuration = 0) =>
                   (r.offset = 0 /\ r.accuracy = "perfect")

\* a hit exactly 50 ms before a beat after the first, judged perfect
C11_Witness ==
    /\ lastOp.op = "evaluateTiming"
    /\ lastOp.result.offset = -(4 * 50)
    /\ lastOp.result.accuracy = "perfect"
    /\ lastOp.result.nearestBeat = 2

\* C12: evaluateTiming on a transport that is not running (never started, or
\* stopped) returns exactly {accuracy: 'off', nearestBeat: 1, offset: 0,
\* barNumber: 0} and changes no state, whatever the hit timestamp.
C12_NotRunningFallback ==
    lastOp.op = "evaluateTimingNotRunning" =>
        /\ lastOp.result = [accuracy |-> "off", nearestBeat |-> 1, offset |-> 0,
                            barNumber |-> 0]
        /\ beatTracker = lastOp.before

\* a hit given to a transport that ran for some time and was stopped
C12_Witness ==
    /\ lastOp.op = "evaluateTimingNotRunning"
    /\ lastOp.hitTime > 0
    /\ run.activeMs > 0
    /\ ~beatTracker.isRunning
    /\ beatTracker.startTime = Null

(***************************************************************************)
(* The input handler on its own: key and touch events, start() and stop()  *)
(***************************************************************************)

\* The steps of the clock between two events (ms): sums of them fall just short of
\* the debounce interval and exactly on it.
IHSteps == {1, 99}

InitIH ==
    /\ now = 0
    /\ ctx = [created |-> FALSE, currentTime |-> 0]
    /\ beatTracker = BeatTrackerNew(100)
    /\ inputHandler = InputHandlerNew
    /\ audioEngine = AudioEngineNew
    /\ game = [isPlaying |-> FALSE, isPaused |-> FALSE, starting |-> 0]
    /\ timers = {}
    /\ groups = EmptyGroups
    /\ inputs = 0
    /\ ticks = 0
    /\ callbacks = << >>
    /\ lastOp = [op |-> "init"]
    /\ run = [activeMs |-> 0, undisturbed |-> TRUE, bpm |-> 100, resumes |-> 0]

\* an event or call on the handler: the handler after it, the callbacks after it
IHEvent(op, ih, cbs) ==
    /\ inputs < MaxCalls
    /\ inputs' = inputs + 1
    /\ inputHandler' = ih
    /\ callbacks' = cbs
    /\ lastOp' = [op |-> op, before |-> inputHandler, fired |-> cbs # callbacks]
    /\ UNCHANGED <<now, ctx, beatTracker, audioEngine, game, timers, groups, ticks, run>>

\* the callbacks after triggerNoteStart() / triggerNoteEnd()
AfterNoteStart ==
    IF NoteStartFires(inputHandler, now)
    THEN Append(callbacks, [cb |-> "onNoteStart", startTime |-> now, endTime |-> now])
    ELSE callbacks

AfterNoteEnd ==
    IF inputHandler.isHolding
    THEN Append(callbacks, [ cb |-> "onNoteEnd", startTime |-> Num(inputHandler.holdStartTime),
                             endTime |-> now ])
    ELSE callbacks

\* handleKeyDown(e): only the space bar, and not a key repeat
IHKeyDown(space, repeat) ==
    /\ inputHandler.listening
    /\ IF space /\ ~repeat
       THEN IHEvent("keydown", TriggerNoteStart(inputHandler, now), AfterNoteStart)
       ELSE IHEvent("otherKey", inputHandler, callbacks)

\* handleKeyUp(e)
IHKeyUp(space) ==
    /\ inputHandler.listening
    /\ IF space
       THEN IHEvent("keyup", TriggerNoteEnd(inputHandler), AfterNoteEnd)
       ELSE IHEvent("otherKey", inputHandler, callbacks)

\* handleTouchStart(e)
IHTouchStart ==
    /\ inputHandler.listening
    /\ IHEvent("touchstart", TriggerNoteStart(inputHandler, now), AfterNoteStart)

\* handleTouchEnd(e)
IHTouchEnd ==
    /\ inputHandler.listening
    /\ IHEvent("touchend", TriggerNoteEnd(inputHandler), AfterNoteEnd)

IHCallStart ==
    /\ IHEvent("start", IH_Start(inputHandler), callbacks)

IHCallStop ==
    /\ IHEvent("stop", IH_Stop(inputHandler), callbacks)

TickIH(d) ==
    /\ ticks < MaxTicks
    /\ Advance(d)

NextIH ==
    \/ \E d \in IHSteps : TickIH(d)
    \/ \E space, repeat \in BOOLEAN : IHKeyDown(space, repeat)
    \/ \E space \in BOOLEAN : IHKeyUp(space)
    \/ IHTouchStart
    \/ IHTouchEnd
    \/ IHCallStart
    \/ IHCallStop

SpecIH == InitIH /\ [][NextIH]_vars

\* the positions of the onNoteStart callbacks made so far
NoteStarts == {i \in 1..Len(callbacks) : callbacks[i].cb = "onNoteStart"}

\* C13: a note-start input fires onNoteStart only if no note is held and at least
\* debounceMs = 100 ms have passed since the previous accepted trigger, so any two
\* onNoteStart callbacks are at least 100 ms apart, also across stop()/start().
C13_DebouncedNoteStarts ==
    /\ (lastOp.op \in {"keydown", "touchstart"} /\ lastOp.fired) =>
           /\ ~lastOp.before.isHolding
           /\ now - lastOp.before.lastTriggerTime >= 100
    /\ \A i, j \in NoteStarts :
           i < j => callbacks[j].startTime - callbacks[i].startTime >= 100

\* two consecutive onNoteStart callbacks exactly 100 ms apart
C13_Witness ==
    /\ lastOp.op \in {"keydown", "touchstart"}
    /\ lastOp.fired
    /\ \E i, j \in NoteStarts :
           /\ j = i + 1
           /\ callbacks[j].startTime - callbacks[i].startTime = 100
           /\ j = Len(callbacks)

\* C14: onNoteStart and onNoteEnd strictly alternate: each onNoteStart(t) is
\* followed, before the next onNoteStart, by exactly one onNoteEnd(t, endTime)
\* with endTime >= t, and onNoteEnd never fires without an unmatched onNoteStart.
C14_CallbacksAlternate ==
    \A i \in 1..Len(callbacks) :
        IF i % 2 = 1
        THEN callbacks[i].cb = "onNoteStart"
        ELSE /\ callbacks[i].cb = "onNoteEnd"
             /\ callbacks[i].startTime = callbacks[i - 1].startTime
             /\ callbacks[i].endTime >= callbacks[i].startTime

(***************************************************************************)
(* The audio engine on its own: an AudioEngine driven through its API      *)
(***************************************************************************)

\* calls on the engine in one behaviour, initialize() apart
MaxEngineCalls == 3
\* advances of the clocks between the calls on the engine
MaxEngineTicks == 2

\* The steps of the clocks between two calls (ms): one period of the scheduler's
\* timer; a time longer than any group.
AESteps == {AudioEngineNew.lookahead, 4750}

InitAE ==
    /\ now = 0
    /\ ctx = [created |-> FALSE, currentTime |-> 0]
    /\ beatTracker = BeatTrackerNew(100)
    /\ inputHandler = InputHandlerNew
    /\ audioEngine = AudioEngineNew
    /\ game = [isPlaying |-> FALSE, isPaused |-> FALSE, starting |-> 0]
    /\ timers = {}
    /\ groups = EmptyGroups
    /\ inputs = 0
    /\ ticks = 0
    /\ callbacks = << >>
    /\ lastOp = [op |-> "init"]
    /\ run = [activeMs |-> 0, undisturbed |-> TRUE, bpm |-> 100, resumes |-> 0]

\* a call of a method of the engine, w the world after it
AECall(op, key, w) ==
    /\ inputs < MaxEngineCalls
    /\ inputs' = inputs + 1
    /\ Commit(w)
    /\ lastOp' = [ op |-> op, key |-> key, log |-> w.log, threw |-> w.threw,
                   at |-> ctx.currentTime,
                   before |-> [ae |-> audioEngine, timers |-> timers, groups |-> groups] ]
    /\ UNCHANGED <<now, ctx, beatTracker, inputHandler, game, ticks, run, callbacks>>

\* initialize() up to its first await: the AudioContext exists
AEInitializeCall ==
    /\ ~audioEngine.isInitialized
    /\ ~audioEngine.ctx
    /\ ctx' = [created |-> TRUE, currentTime |-> 0]
    /\ audioEngine' = [audioEngine EXCEPT !.ctx = TRUE]
    /\ lastOp' = [op |-> "initializeCall"]
    /\ UNCHANGED <<now, beatTracker, inputHandler, game, timers, groups, inputs, ticks, run,
                   callbacks>>

\* initialize() after its awaits
AEInitializeDone ==
    /\ audioEngine.ctx
    /\ ~audioEngine.isInitialized
    /\ audioEngine' = [audioEngine EXCEPT !.isInitialized = TRUE]
    /\ lastOp' = [op |-> "initializeDone"]
    /\ UNCHANGED <<now, ctx, beatTracker, inputHandler, game, timers, groups, inputs, ticks,
                   run, callbacks>>

AEStartContinuousDrums ==
    /\ AECall("startContinuousDrums", DRUMS, StartContinuousDrums(World, now, ctx))

AEStopContinuousDrums ==
    /\ AECall("stopContinuousDrums", DRUMS, StopContinuousDrums(World))

\* playNote(beat, 0, accuracy)
AEPlayNote(beat) ==
    /\ AECall("playNote", BeatKey(beat), PlayNote(World, ctx, beat, 0))

AEPlayMetronomeClick ==
    /\ AECall("playMetronomeClick", "click", PlayMetronomeClick(World, ctx))

AEStopLoop(key) ==
    /\ AECall("stopLoop", key, StopLoop(World, key))

AEStopAll ==
    /\ AECall("stopAll", DRUMS, StopAll(World))

AEStopInstruments ==
    /\ AECall("stopInstruments", DRUMS, StopInstruments(World))

\* time passes between two calls; a callback that is due runs first
TickAE(d) ==
    /\ ticks < MaxEngineTicks
    /\ ctx.created
    /\ \A tm \in timers : tm.due > now
    /\ Advance(d)

NextAE ==
    \/ \E d \in AESteps : TickAE(d)
    \/ SchedulerTimer
    \/ AEInitializeCall
    \/ AEInitializeDone
    \/ AEStartContinuousDrums
    \/ AEStopContinuousDrums
    \/ \E beat \in 1..4 : AEPlayNote(beat)
    \/ AEPlayMetronomeClick
    \/ \E key \in INSTRUMENT_KEYS \cup {DRUMS} : AEStopLoop(key)
    \/ AEStopAll
    \/ AEStopInstruments

SpecAE == InitAE /\ [][NextAE]_vars

\* the engine, its timers and its groups are as before the last call
EngineUnchanged ==
    /\ audioEngine = lastOp.before.ae
    /\ timers = lastOp.before.timers
    /\ groups = lastOp.before.groups

\* C15: startContinuousDrums from Idle (with an AudioContext) moves the scheduler
\* to Running, sets nextLoopTime to the audio clock's reading and performs one
\* pass that hands off the first measure, starting at that reading, and arms the
\* timer; called while Running it changes nothing.
C15_StartFromIdleStartWhileRunning ==
    (lastOp.op = "startContinuousDrums" /\ lastOp.before.ae.ctx) =>
        IF lastOp.before.ae.isDrumsPlaying
        THEN EngineUnchanged /\ lastOp.log = << >>
        ELSE /\ audioEngine.isDrumsPlaying
             /\ Len(lastOp.log) = 1
             /\ lastOp.log[1].channel = DRUMS
             /\ lastOp.log[1].start = lastOp.at
             /\ MapGet(audioEngine.activeLoops, DRUMS) = {lastOp.log[1].id}
             /\ audioEngine.nextLoopTime = lastOp.at + MeasureMs(audioEngine)
             /\ Cardinality(timers) = 1
             /\ \A tm \in timers : /\ tm.due = now + audioEngine.lookahead
                                   /\ audioEngine.schedulerTimerId = Some(tm.id)
             /\ ~lastOp.threw

\* startContinuousDrums called while the scheduler, started from Idle at an
\* earlier time, is Running with its timer pending
C15_Witness ==
    /\ lastOp.op = "startContinuousDrums"
    /\ lastOp.before.ae.isDrumsPlaying
    /\ lastOp.before.timers # {}
    /\ lastOp.at > 0
    /\ audioEngine.nextLoopTime < lastOp.at + MeasureMs(audioEngine)

\* C16: after stopContinuousDrums the scheduler is Idle, no timer is pending and
\* the 'drums' entry is removed (its group stopped); while the scheduler is Idle
\* no timer is pending, the map has no 'drums' entry and a timer callback hands
\* off no measure; stopContinuousDrums from Idle changes nothing.
C16_StopMakesIdle ==
    /\ lastOp.op = "stopContinuousDrums" =>
           /\ ~audioEngine.isDrumsPlaying
           /\ audioEngine.schedulerTimerId = Null
           /\ ~lastOp.threw
           /\ \A id \in MapGet(lastOp.before.ae.activeLoops, DRUMS) : groups[id].stopped
           /\ ~lastOp.before.ae.isDrumsPlaying => EngineUnchanged
    /\ ~audioEngine.isDrumsPlaying =>
           /\ timers = {}
           /\ MapGet(audioEngine.activeLoops, DRUMS) = {}
           /\ lastOp.op = "scheduler" => lastOp.log = << >>

\* stopContinuousDrums on a Running scheduler with its timer pending and a
\* background group in the map
C16_Witness ==
    /\ lastOp.op = "stopContinuousDrums"
    /\ lastOp.before.ae.isDrumsPlaying
    /\ lastOp.before.timers # {}
    /\ MapGet(lastOp.before.ae.activeLoops, DRUMS) # {}
    /\ timers = {}

(***************************************************************************)
(* The lookahead scheduler when every timer fires on time                  *)
(***************************************************************************)

\* the clock stops here (ms): two measures of the slowest genre's first, and more
MaxRunTime == 5000

\* a genre is chosen on the start screen before the engine is initialized
OTSetGenre(genreId) ==
    /\ ~audioEngine.ctx
    /\ lastOp.op = "init"
    /\ Commit(SetGenre(World, now, ctx, genreId))
    /\ lastOp' = [op |-> "setGenre", log |-> << >>, wasDrumsPlaying |-> FALSE,
                  fromBpm |-> audioEngine.bpm, before |-> {}]
    /\ UNCHANGED <<now, ctx, beatTracker, inputHandler, game, inputs, ticks, run, callbacks>>

\* initialize(), then startContinuousDrums()
OTStart ==
    /\ ~audioEngine.ctx
    /\ ctx' = [created |-> TRUE, currentTime |-> 0]
    /\ LET w == StartContinuousDrums(
                    [World EXCEPT !.ae.ctx = TRUE, !.ae.isInitialized = TRUE], now, ctx')
       IN  /\ Commit(w)
           /\ lastOp' = [op |-> "startGame", log |-> w.log]
    /\ UNCHANGED <<now, beatTracker, inputHandler, game, inputs, ticks, run, callbacks>>

\* time passes up to the instant the pending timer is due
OnTimeTick ==
    /\ now < MaxRunTime
    /\ \E tm \in timers :
           /\ tm.due > now
           /\ \A other \in timers : other.due >= tm.due
           /\ Advance(tm.due - now)

NextOnTime ==
    \/ \E g \in GENRES : OTSetGenre(g)
    \/ OTStart
    \/ OnTimeTick
    \/ SchedulerTimer

SpecOnTime == InitAE /\ [][NextOnTime]_vars

\* C17: the polling interval is strictly smaller than the horizon, and when every
\* timer fires on time each measure a timer callback hands off is handed off
\* strictly before its due time, at least horizon - poll = 75 ms ahead.
C17_HandedOffAheadOfTime ==
    /\ audioEngine.lookahead < audioEngine.scheduleAheadTime
    /\ lastOp.op = "scheduler" =>
           \A i \in 1..Len(lastOp.log) :
               /\ lastOp.log[i].start > lastOp.at
               /\ lastOp.log[i].start - lastOp.at >= 100 - 25

\* the second measure of a run at 128 BPM, due at 1875 ms, handed off at 1800 ms
C17_Witness ==
    /\ lastOp.op = "scheduler"
    /\ Len(lastOp.log) = 1
    /\ lastOp.log[1].start = 1875
    /\ lastOp.at = 1800

\* C18: before audio initialization (ctx null, isInitialized false),
\* startContinuousDrums, playNote and playMetronomeClick raise no error and leave
\* the engine unchanged: the scheduler stays Idle with no timer and the map is
\* unchanged.
C18_CallsBeforeInitializationAreNoOps ==
    (/\ lastOp.op \in {"startContinuousDrums", "playNote", "playMetronomeClick"}
     /\ ~lastOp.before.ae.ctx
     /\ ~lastOp.before.ae.isInitialized) =>
        /\ ~lastOp.threw
        /\ EngineUnchanged

\* every key of the map has at most one entry, and every entry names a group
MapConsistent ==
    /\ \A e, f \in audioEngine.activeLoops : e[1] = f[1] => e = f
    /\ \A e \in audioEngine.activeLoops : e[2] \in DOMAIN groups

\* C19: stopLoop(channel) stops and removes the channel's group when the map holds
\* one and changes nothing when it holds none; stopLoop, stopAll, stopInstruments
\* and stopContinuousDrums never raise an error, also when the group they stop has
\* already finished or was already stopped, and leave the map consistent.
C19_StopNeverThrows ==
    /\ lastOp.op \in {"stopLoop", "stopAll", "stopInstruments", "stopContinuousDrums"} =>
        /\ ~lastOp.threw
        /\ MapConsistent
    /\ lastOp.op = "stopLoop" =>
        LET loop == MapGet(lastOp.before.ae.activeLoops, lastOp.key)
        IN  IF loop = {} THEN EngineUnchanged
            ELSE /\ audioEngine =
                      [lastOp.before.ae EXCEPT !.activeLoops = MapDelete(@, lastOp.key)]
                 /\ timers = lastOp.before.timers
                 /\ DOMAIN groups = DOMAIN lastOp.before.groups
                 /\ \A id \in DOMAIN groups :
                      groups[id] = IF id \in loop
                                   THEN [lastOp.before.groups[id] EXCEPT !.stopped = TRUE]
                                   ELSE lastOp.before.groups[id]

\* stopLoop on a channel whose group had already finished when it was called
C19_Witness ==
    /\ lastOp.op = "stopLoop"
    /\ ~lastOp.threw
    /\ \E id \in MapGet(lastOp.before.ae.activeLoops, lastOp.key) :
         /\ ~Unfinished(lastOp.before.groups[id], lastOp.at)
         /\ groups[id].stopped
         /\ MapGet(audioEngine.activeLoops, lastOp.key) = {}

\* C20: stopInstruments stops and removes every group on channels 1..4 and leaves
\* the background channel alone: the 'drums' entry, isDrumsPlaying, nextLoopTime,
\* schedulerTimerId and the pending scheduler timer are unchanged, so the
\* scheduler goes on handing off measures.
C20_StopInstrumentsSparesDrums ==
    lastOp.op = "stopInstruments" =>
        LET es == {e \in lastOp.before.ae.activeLoops : e[1] \in INSTRUMENT_KEYS}
        IN  /\ audioEngine = [lastOp.before.ae EXCEPT !.activeLoops = @ \ es]
            /\ \A e \in audioEngine.activeLoops : e[1] = DRUMS
            /\ MapGet(audioEngine.activeLoops, DRUMS) =
                 MapGet(lastOp.before.ae.activeLoops, DRUMS)
            /\ timers = lastOp.before.timers
            /\ DOMAIN groups = DOMAIN lastOp.before.groups
            /\ \A id \in DOMAIN groups :
                 groups[id] = IF id \in {e[2] : e \in es}
                              THEN [lastOp.before.groups[id] EXCEPT !.stopped = TRUE]
                              ELSE lastOp.before.groups[id]

\* stopInstruments while the scheduler is Running with a timer pending, the map
\* holding the background group and a group on an instrument channel
C20_Witness ==
    /\ lastOp.op = "stopInstruments"
    /\ lastOp.before.ae.isDrumsPlaying
    /\ lastOp.before.timers # {}
    /\ MapGet(lastOp.before.ae.activeLoops, DRUMS) # {}
    /\ \E e \in lastOp.before.ae.activeLoops : e[1] \in INSTRUMENT_KEYS
    /\ audioEngine.isDrumsPlaying
    /\ timers # {}
    /\ \A e \in audioEngine.activeLoops : e[1] = DRUMS

(***************************************************************************)
(* The transport: every method of BeatTracker, called in any order         *)
(***************************************************************************)
MaxTransportCalls == 4
MaxTransportTicks == 3

\* getTimeToNextBeat(), in quarters of a ms: it reads the clock also while paused
GetTimeToNextBeat(bt, t, c) ==
    IF ~bt.isRunning \/ bt.startTime = Null
    THEN bt.beatDuration
    ELSE LET n == 4 * ElapsedFrom(bt, ClockReading(bt, t, c))
         IN  (Floor(n, bt.beatDuration) + 1) * bt.beatDuration - n

\* getPulseIntensity(): the argument of its cosine, info.progress (times 2 pi)
GetPulseIntensity(bt, t, c) == GetCurrentBeatInfo(bt, t, c).progress

\* a query that keeps the bar it computed in barCount
AfterQueryCountingBars(bt, t, c) ==
    [bt EXCEPT !.barCount = GetCurrentBeatInfo(bt, t, c).barNumber]

\* the tracker after a query: none of the four assigns a field
AfterQuery(bt, t, c) == bt

\* the time base the tracker reads
Base(bt) == IF bt.audioCtx THEN "audio" ELSE "perf"

\* The bases the stored readings were read from: startTime, pausedAt, and the two
\* readings subtracted in each term of totalPausedTime.
BasesAfter(op, bt, r) ==
    CASE op = "start"  -> [r EXCEPT !.startBase = Base(bt)]
      [] op = "stop"   -> [r EXCEPT !.startBase = "none", !.pausedBase = "none",
                                    !.pauseBases = {}]
      [] op = "pause"  -> IF ~bt.isRunning \/ bt.isPaused THEN r
                          ELSE [r EXCEPT !.pausedBase = Base(bt)]
      [] op = "resume" -> IF ~bt.isPaused THEN r
                          ELSE [r EXCEPT !.pausedBase = "none",
                                         !.pauseBases = @ \cup {r.pausedBase, Base(bt)}]
      [] OTHER         -> r

InitTransport ==
    /\ now = 250
    /\ ctx = [created |-> TRUE, currentTime |-> 0]
    /\ beatTracker = BeatTrackerNew(100)
    /\ inputHandler = InputHandlerNew
    /\ audioEngine = AudioEngineNew
    /\ game = [isPlaying |-> FALSE, isPaused |-> FALSE, starting |-> 0]
    /\ timers = {}
    /\ groups = EmptyGroups
    /\ inputs = 0
    /\ ticks = 0
    /\ callbacks = << >>
    /\ lastOp = [op |-> "init"]
    /\ run = [activeMs |-> 0, undisturbed |-> TRUE, bpm |-> 100, resumes |-> 0,
              startBase |-> "none", pausedBase |-> "none", pauseBases |-> {}]

\* a call of a method: the tracker after it and what it returned
TransportCall(op, bt, result) ==
    /\ inputs < MaxTransportCalls
    /\ inputs' = inputs + 1
    /\ beatTracker' = bt
    /\ run' = BasesAfter(op, beatTracker, run)
    /\ lastOp' = [ op |-> op, before |-> beatTracker,
                   reading |-> ClockReading(beatTracker, now, ctx),
                   info |-> GetCurrentBeatInfo(beatTracker, now, ctx),
                   result |-> result ]
    /\ UNCHANGED <<now, ctx, inputHandler, audioEngine, game, timers, groups, ticks,
                   callbacks>>

TSetAudioContext ==
    /\ ~beatTracker.audioCtx
    /\ TransportCall("setAudioContext", SetAudioContext(beatTracker), Null)

TStart ==
    /\ TransportCall("start", BT_Start(beatTracker, now, ctx), Null)

TStop ==
    /\ TransportCall("stop", BT_Stop(beatTracker), Null)

TPause ==
    /\ TransportCall("pause", BT_Pause(beatTracker, now, ctx), Null)

TResume ==
    /\ TransportCall("resume", BT_Resume(beatTracker, now, ctx), Null)

TSetBPM(bpm) ==
    /\ bpm # beatTracker.bpm
    /\ TransportCall("setBPM", BT_SetBPM(beatTracker, bpm), Null)

TGetCurrentBeatInfo ==
    /\ TransportCall("getCurrentBeatInfo", AfterQuery(beatTracker, now, ctx),
                     GetCurrentBeatInfo(beatTracker, now, ctx))

TEvaluateTiming ==
    /\ TransportCall("evaluateTiming", AfterQuery(beatTracker, now, ctx),
                     EvaluateTiming(beatTracker, now, ctx))

TGetTimeToNextBeat ==
    /\ TransportCall("getTimeToNextBeat", AfterQuery(beatTracker, now, ctx),
                     GetTimeToNextBeat(beatTracker, now, ctx))

TGetPulseIntensity ==
    /\ TransportCall("getPulseIntensity", AfterQuery(beatTracker, now, ctx),
                     GetPulseIntensity(beatTracker, now, ctx))

\* time passes between two calls
TTick(d) ==
    /\ ticks < MaxTransportTicks
    /\ Advance(d)

NextTransport ==
    \/ \E d \in BTSteps : TTick(d)
    \/ TSetAudioContext
    \/ TStart
    \/ TStop
    \/ TPause
    \/ TResume
    \/ \E bpm \in BPMS : TSetBPM(bpm)
    \/ TGetCurrentBeatInfo
    \/ TEvaluateTiming
    \/ TGetTimeToNextBeat
    \/ TGetPulseIntensity

SpecTransport == InitTransport /\ [][NextTransport]_vars

\* C21: pause() on a transport that is not running or is already paused changes no
\* state; resume() on one that is not paused changes no state; a resume() that
\* applies adds exactly (the clock's reading - pausedAt) to totalPausedTime and
\* clears isPaused and pausedAt.
C21_PauseResumeGuards ==
    /\ (lastOp.op = "pause" /\ (~lastOp.before.isRunning \/ lastOp.before.isPaused)) =>
          beatTracker = lastOp.before
    /\ (lastOp.op = "resume" /\ ~lastOp.before.isPaused) =>
          beatTracker = lastOp.before
    /\ (lastOp.op = "resume" /\ lastOp.before.isPaused) =>
          /\ beatTracker.totalPausedTime =
               lastOp.before.totalPausedTime
                 + (lastOp.reading - Num(lastOp.before.pausedAt))
          /\ ~beatTracker.isPaused
          /\ beatTracker.pausedAt = Null

\* a second pause(), made some time after the first, that left pausedAt alone
C21_Witness ==
    /\ lastOp.op = "pause"
    /\ lastOp.before.isPaused
    /\ lastOp.before.pausedAt # Some(lastOp.reading)
    /\ beatTracker.pausedAt = lastOp.before.pausedAt

\* C22: stop() is idempotent and, from any state, resets the transport to the inert
\* state (isRunning false, startTime null, isPaused false, pausedAt null,
\* totalPausedTime 0), in which getCurrentBeatInfo() returns beat 1, progress 0,
\* barNumber 0, totalBeats 0.
C22_StopResetsToInert ==
    lastOp.op = "stop" =>
        /\ beatTracker = [lastOp.before EXCEPT !.isRunning = FALSE,
                                               !.startTime = Null,
                                               !.isPaused = FALSE,
                                               !.pausedAt = Null,
                                               !.totalPausedTime = 0]
        /\ BT_Stop(beatTracker) = beatTracker
        /\ lastOp.before.startTime = Null => beatTracker = lastOp.before
        /\ GetCurrentBeatInfo(beatTracker, now, ctx) =
             [beat |-> 1, progress |-> <<0, 1>>, barNumber |-> 0, totalBeats |-> <<0, 1>>]

\* stop() on a running transport that has accumulated pause time
C22_Witness ==
    /\ lastOp.op = "stop"
    /\ lastOp.before.isRunning
    /\ lastOp.before.totalPausedTime > 0
    /\ ~beatTracker.isRunning
    /\ beatTracker.totalPausedTime = 0

\* C23: start() on a transport that is not running sets startTime to the reading
\* of the clock the tracker uses, leaves totalPausedTime at 0 and isPaused false,
\* and sets isRunning; a position query at the same instant returns totalBeats 0,
\* beat 1, barNumber 0.
C23_StartAnchorsAtNow ==
    (lastOp.op = "start" /\ ~lastOp.before.isRunning) =>
        /\ beatTracker.startTime = Some(lastOp.reading)
        /\ beatTracker.totalPausedTime = 0
        /\ ~beatTracker.isPaused
        /\ beatTracker.isRunning
        /\ LET info == GetCurrentBeatInfo(beatTracker, now, ctx)
           IN  /\ info.totalBeats = <<0, 1>>
               /\ info.beat = 1
               /\ info.barNumber = 0

\* start() on a stopped transport with the audio clock attached and past zero
C23_Witness ==
    /\ lastOp.op = "start"
    /\ ~lastOp.before.isRunning
    /\ lastOp.before.audioCtx
    /\ lastOp.reading > 0
    /\ beatTracker.startTime = Some(ctx.currentTime)
    /\ beatTracker.isRunning

\* C24: pause() and resume() never change startTime, bpm, beatDuration or
\* isRunning; they change only isPaused, pausedAt and totalPausedTime.
C24_PauseResumeFrame ==
    lastOp.op \in {"pause", "resume"} =>
        /\ beatTracker.startTime = lastOp.before.startTime
        /\ beatTracker.bpm = lastOp.before.bpm
        /\ beatTracker.beatDuration = lastOp.before.beatDuration
        /\ beatTracker.isRunning = lastOp.before.isRunning
        /\ beatTracker = [lastOp.before EXCEPT !.isPaused = beatTracker.isPaused,
                                               !.pausedAt = beatTracker.pausedAt,
                                               !.totalPausedTime = beatTracker.totalPausedTime]

\* a resume() that ended a pause of some length
C24_Witness ==
    /\ lastOp.op = "resume"
    /\ lastOp.before.isPaused
    /\ lastOp.reading > Num(lastOp.before.pausedAt)
    /\ beatTracker.totalPausedTime > lastOp.before.totalPausedTime
    /\ beatTracker.startTime = lastOp.before.startTime

\* whether every stored reading of the tracker was read from the clock it reads now
OneBase ==
    /\ run.startBase = Base(beatTracker)
    /\ run.pausedBase \in {"none", Base(beatTracker)}
    /\ run.pauseBases \subseteq {Base(beatTracker)}

\* a/b <= c/d for fractions with positive denominators
FracLeq(x, y) == x[1] * y[2] <= y[1] * x[2]

\* C25: on a running transport, a pause(), resume() or setBPM() call does not
\* lower the totalBeats (nor the barNumber) that getCurrentBeatInfo() returns:
\* a query just after the call returns at least what a query just before returned.
C25_TotalBeatsNeverDecrease ==
    (/\ lastOp.op \in {"pause", "resume", "setBPM"}
     /\ lastOp.before.isRunning
     /\ OneBase) =>
        LET info == GetCurrentBeatInfo(beatTracker, now, ctx)
        IN  /\ FracLeq(lastOp.info.totalBeats, info.totalBeats)
            /\ lastOp.info.barNumber <= info.barNumber

\* C26: after any sequence of setAudioContext, start, pause, resume and stop calls,
\* whenever the transport is running, startTime, pausedAt and totalPausedTime were
\* all read from the clock that the position and timing queries read now;
\* attaching the audio clock re-anchors startTime to it.
C26_OneTimeBase ==
    /\ beatTracker.isRunning => OneBase
    /\ (lastOp.op = "setAudioContext" /\ lastOp.before.isRunning) =>
          beatTracker.startTime = Some(AudioReading(ctx))

\* C27: getCurrentBeatInfo, evaluateTiming, getTimeToNextBeat and
\* getPulseIntensity leave every field of the tracker unchanged, in every state
\* (running, paused, stopped).
C27_QueriesChangeNothing ==
    lastOp.op \in {"getCurrentBeatInfo", "evaluateTiming", "getTimeToNextBeat",
                   "getPulseIntensity"} =>
        beatTracker = lastOp.before

\* a position query on a running transport that has reached its second bar
C27_Witness ==
    /\ lastOp.op = "getCurrentBeatInfo"
    /\ lastOp.before.isRunning
    /\ OneBase
    /\ lastOp.result.barNumber >= 1
    /\ beatTracker = lastOp.before

\* whether a result of evaluateTiming is the one for e ms elapsed: the beat index
\* it names and its offset add up to e (in quarters of a ms)
ResultFor(result, bt, e) ==
    (4 * result.barNumber + result.nearestBeat - 1) * bt.beatDuration + result.offset
        = 4 * e

\* C28: with an audio clock attached, the result of evaluateTiming is the one for
\* the audio clock's reading at the call, the same whatever hit timestamp is
\* passed; with none attached, it is the one for the hit timestamp, not for the
\* time of the call.
C28_EvaluateTimingClock ==
    lastOp.op = "evaluateTimingAt" =>
        IF beatTracker.audioCtx
        THEN /\ lastOp.result = EvaluateTiming(beatTracker, now, ctx)
             /\ \A h \in StaleHitTimes :
                    EvaluateTiming(beatTracker, h, ctx) = lastOp.result
             /\ ResultFor(lastOp.result, beatTracker,
                          ctx.currentTime - Num(beatTracker.startTime))
        ELSE ResultFor(lastOp.result, beatTracker,
                       lastOp.hitTime - Num(beatTracker.startTime) \div 1000)

\* with the audio clock attached and 1650 ms into the run, a hit stamped 0 is
\* placed on beat 3 at 75 BPM, where the clock is, not on beat 1
C28_Witness ==
    /\ lastOp.op = "evaluateTimingAt"
    /\ beatTracker.audioCtx
    /\ beatTracker.bpm = 75
    /\ lastOp.hitTime = 0
    /\ ctx.currentTime - Num(beatTracker.startTime) = 1650
    /\ lastOp.result.nearestBeat = 3
    /\ lastOp.result.offset = 4 * 50

\* C29: for every tempo and every elapsed beat count B >= 0 (B = elapsed ms * bpm
\* / 60000), getCurrentBeatInfo returns totalBeats = B, beat = (floor(B) mod 4) + 1
\* in 1..4, progress = B - floor(B) in [0, 1) and barNumber = floor(B / 4), which
\* does not decrease as B grows.
C29_BeatInfoArithmetic ==
    lastOp.op = "getCurrentBeatInfo" =>
        LET r == lastOp.result
            B == r.totalBeats
            p == r.progress
            floorB == B[1] \div B[2]
        IN  /\ B[2] > 0 /\ B[1] >= 0
            /\ B[1] * 60000 = lastOp.e * beatTracker.bpm * B[2]
            /\ r.beat = (floorB % 4) + 1
            /\ r.beat \in 1..4
            /\ p[2] > 0 /\ 0 <= p[1] /\ p[1] < p[2]
            /\ p[1] * B[2] = (B[1] - floorB * B[2]) * p[2]
            /\ r.barNumber = floorB \div 4
            /\ lastOp.e >= 1 =>
                  BeatInfoAt(lastOp.e - 1, beatTracker.bpm).barNumber <= r.barNumber

\* 2250 ms at 128 BPM: B = 4.8, the first beat of the second bar, four fifths through
C29_Witness ==
    /\ lastOp.op = "getCurrentBeatInfo"
    /\ beatTracker.bpm = 128
    /\ lastOp.e = 2250
    /\ lastOp.result = [beat |-> 1, progress |-> <<4, 5>>, barNumber |-> 1,
                        totalBeats |-> <<24, 5>>]

\* C30: a debounced hit handled by handleNoteStart while audio is initialized,
\* whatever its accuracy, replaces exactly the group of the channel equal to the
\* evaluated nearestBeat: the group the channel held is stopped and a new one,
\* starting now, takes its entry; the groups and entries of the other three
\* channels and of 'drums', and the scheduler's state and timer, are unchanged.
C30_HitReplacesOneChannel ==
    [][(/\ HandleNoteStart
        /\ NoteStartFires(inputHandler, now)
        /\ audioEngine.isInitialized) =>
          LET timing == EvaluateTiming(beatTracker, now, ctx)
              k == BeatKey(timing.nearestBeat)
              old == MapGet(audioEngine.activeLoops, k)
              new == MapGet(audioEngine'.activeLoops, k)
          IN  /\ timing.nearestBeat \in 1..4
              /\ Cardinality(new) = 1
              /\ \A id \in new : /\ id \notin DOMAIN groups
                                 /\ groups'[id] = [groups'[id] EXCEPT
                                                     !.channel = k,
                                                     !.start = ctx.currentTime,
                                                     !.stopped = FALSE]
              /\ \A id \in old : groups'[id] = [groups[id] EXCEPT !.stopped = TRUE]
              /\ \A id \in DOMAIN groups \ old : groups'[id] = groups[id]
              /\ DOMAIN groups' = DOMAIN groups \cup new
              /\ \A key \in (INSTRUMENT_KEYS \cup {DRUMS}) \ {k} :
                     MapGet(audioEngine'.activeLoops, key)
                       = MapGet(audioEngine.activeLoops, key)
              /\ audioEngine' = [audioEngine EXCEPT
                                   !.activeLoops = audioEngine'.activeLoops]
              /\ timers' = timers
      ]_vars


(***************************************************************************)
(* The game while startGame() calls are awaiting initialize(): the await   *)
(* of ctx.resume() takes time, during which other handlers run             *)
(***************************************************************************)
MaxGestures == 5
MaxStartupTicks == 2

\* The steps of the clocks (ms) while the game starts and plays.
StartupSteps == {2300}

\* a user gesture: the handler it runs
Gesture(handler) ==
    /\ inputs < MaxGestures
    /\ inputs' = inputs + 1
    /\ handler

SStartGame ==
    /\ Gesture(StartGameBegin)

STogglePause ==
    /\ Gesture(TogglePauseHandler)

SGoHome ==
    /\ Gesture(GoHomeHandler)

SHit ==
    /\ Gesture(HandleNoteStart)

\* time passes, also while a startGame() call is awaiting
STick(d) ==
    /\ ticks < MaxStartupTicks
    /\ ctx.created
    /\ \A tm \in timers : tm.due > now
    /\ Advance(d)

NextStartup ==
    \/ \E d \in StartupSteps : STick(d)
    \/ SStartGame
    \/ StartGameContinue
    \/ STogglePause
    \/ SGoHome
    \/ SHit
    \/ SchedulerTimer

SpecStartup == Init /\ [][NextStartup]_vars

\* C31: for every barNumber that evaluateTiming returns to handleNoteStart in a
\* reachable state of the game, playNote finds a chord at index barNumber mod 8 of
\* the genre's 8 chords: the index is in 0..7 and playNote does not fail.
C31_ChordIndexDefined ==
    (lastOp.op = "playNote" /\ lastOp.fired /\ audioEngine.isInitialized) =>
        /\ lastOp.timing.barNumber >= 0
        /\ JsRem(lastOp.timing.barNumber, 8) \in 0..7

(***************************************************************************)
(* The engine with a timer that keeps firing: a due callback runs, and     *)
(* time passes while it may                                                *)
(***************************************************************************)
\* The event loop runs a due callback: no timer stays due for ever.  This is
\* weak fairness of SchedulerTimer, which is enabled when a timer is due and
\* whose step takes the due timer out of the queue, written on the states.
SpecAELive ==
    /\ InitAE
    /\ [][NextAE]_vars
    /\ []<>(\A tm \in timers : tm.due > now)
    /\ WF_vars(\E d \in AESteps : TickAE(d))

\* C32: while the scheduler is Running with its timer pending, every background
\* measure that comes due is eventually handed off unless the scheduler is
\* stopped; every pass made while Running, the one of startContinuousDrums
\* included, leaves exactly one timer armed, a lookahead from now; this after a
\* late pass, stops followed by a start, or a hit on any channel.
C32_SchedulingNeverHalts ==
    /\ []((\/ lastOp.op = "scheduler" /\ lastOp.ran
           \/ /\ lastOp.op = "startContinuousDrums"
              /\ lastOp.before.ae.ctx
              /\ ~lastOp.before.ae.isDrumsPlaying) =>
            /\ audioEngine.isDrumsPlaying
            /\ audioEngine.nextLoopTime
                 >= ctx.currentTime + audioEngine.scheduleAheadTime
            /\ \E tm \in timers :
                 /\ timers = {tm}
                 /\ tm.due = now + audioEngine.lookahead
                 /\ audioEngine.schedulerTimerId = Some(tm.id))
    /\ (/\ audioEngine.isDrumsPlaying
        /\ timers # {}
        /\ audioEngine.nextLoopTime < ctx.currentTime + audioEngine.scheduleAheadTime
        /\ ticks < MaxEngineTicks)
         ~> (\/ ~audioEngine.isDrumsPlaying
             \/ audioEngine.nextLoopTime
                  >= ctx.currentTime + audioEngine.scheduleAheadTime)

\* a late pass that handed off two measures at once and re-armed the timer
C32_Witness ==
    /\ lastOp.op = "scheduler"
    /\ lastOp.ran
    /\ Len(lastOp.log) >= 2
    /\ audioEngine.isDrumsPlaying
    /\ Cardinality(timers) = 1

(***************************************************************************)
(* The game and its tempo: the genre buttons in every state of the game,   *)
(* and Game.setBPM                                                         *)
(***************************************************************************)
\* Game.setBPM(bpm)
GameSetBPM(bpm) ==
    /\ beatTracker' = BT_SetBPM(beatTracker, bpm)
    /\ lastOp' = [op |-> "setBPM", bpm |-> bpm]
    /\ UNCHANGED <<now, ctx, inputHandler, audioEngine, game, timers, groups, ticks,
                   run, callbacks>>

SGenreClick(genreId) ==
    /\ Gesture(GenreClickHandler(genreId))

SSetBPM(bpm) ==
    /\ Gesture(GameSetBPM(bpm))

NextTempo ==
    \/ \E d \in StartupSteps : STick(d)
    \/ SStartGame
    \/ StartGameContinue
    \/ STogglePause
    \/ SGoHome
    \/ \E g \in GENRES : SGenreClick(g)
    \/ \E bpm \in BPMS : SSetBPM(bpm)
    \/ SchedulerTimer

SpecTempo == Init /\ [][NextTempo]_vars

\* C33: after every sequence of genre selections, startGame, togglePause, goHome
\* and Game.setBPM, the scheduler's tempo (AudioEngine.bpm, beatDuration) equals the
\* transport's tempo (BeatTracker.bpm, beatDuration).
C33_OneTempo ==
    /\ audioEngine.bpm = beatTracker.bpm
    /\ audioEngine.beatDuration = beatTracker.beatDuration

(***************************************************************************)
(* The scheduler's timer and its flag                                      *)
(***************************************************************************)
\* C34: between events a scheduler timer is pending exactly when isDrumsPlaying
\* is true, and at most one scheduler timer is pending, over every sequence of
\* startContinuousDrums, stopContinuousDrums, stopAll, setGenre and timer firings.
C34_TimerIffDrumsPlaying ==
    /\ audioEngine.isDrumsPlaying <=> timers # {}
    /\ Cardinality(timers) <= 1

(***************************************************************************)
(* The scheduling pass under every tempo setBPM accepts                    *)
(***************************************************************************)
\* scheduler() on engine ae: its while loop runs and nextLoopTime does not grow, so
\* the loop's condition stays true and the call never returns
PassHangs(ae, c) ==
    /\ ae.isDrumsPlaying
    /\ ae.nextLoopTime < c.currentTime + ae.scheduleAheadTime
    /\ MeasureMs(ae) <= 0

\* a call has not returned: the thread is in the while loop for ever
Hung == lastOp.op = "hang"

\* a call that never returns: nothing runs after it
Hang(in) ==
    /\ lastOp' = [op |-> "hang", in |-> in, at |-> ctx.currentTime,
                  from |-> audioEngine.nextLoopTime, measure |-> MeasureMs(audioEngine)]
    /\ UNCHANGED <<now, ctx, beatTracker, inputHandler, audioEngine, game, timers, groups,
                   inputs, ticks, run, callbacks>>

PInitializeCall ==
    /\ ~Hung
    /\ AEInitializeCall

\* setBPM(bpm), which takes every number: here two of the genres' tempos and a
\* negative one
PSetBPM(bpm) ==
    /\ ~Hung
    /\ AECall("setBPM", DRUMS, AE_SetBPM(World, bpm))

PSetGenre(g) ==
    /\ ~Hung
    /\ AECall("setGenre", DRUMS, SetGenre(World, now, ctx, g))

PStartContinuousDrums ==
    /\ ~Hung
    /\ IF /\ ~audioEngine.isDrumsPlaying
          /\ audioEngine.ctx
          /\ PassHangs([audioEngine EXCEPT !.isDrumsPlaying = TRUE,
                                           !.nextLoopTime = ctx.currentTime], ctx)
       THEN Hang("startContinuousDrums")     \* the scheduler() it calls never returns
       ELSE AECall("startContinuousDrums", DRUMS, StartContinuousDrums(World, now, ctx))

PStopContinuousDrums ==
    /\ ~Hung
    /\ AECall("stopContinuousDrums", DRUMS, StopContinuousDrums(World))

\* the callback of setTimeout(() => this.scheduler(), this.lookahead)
PSchedulerTimer ==
    /\ ~Hung
    /\ IF PassHangs(audioEngine, ctx)
       THEN /\ \E tm \in timers : tm.due <= now
            /\ Hang("scheduler")
       ELSE SchedulerTimer

PTick(d) ==
    /\ ~Hung
    /\ TickAE(d)

NextPass ==
    \/ \E d \in AESteps : PTick(d)
    \/ PSchedulerTimer
    \/ PInitializeCall
    \/ \E bpm \in {-100, 75, 128} : PSetBPM(bpm)
    \/ \E g \in GENRES : PSetGenre(g)
    \/ PStartContinuousDrums
    \/ PStopContinuousDrums

SpecPass == InitAE /\ [][NextPass]_vars

C36_MeasuresOnBarBoundaries ==
    (/\ beatTracker.isRunning
     /\ ~beatTracker.isPaused
     /\ beatTracker.audioCtx
     /\ audioEngine.isDrumsPlaying
     /\ "log" \in DOMAIN lastOp) =>
        \A i \in 1..Len(lastOp.log) :
            lastOp.log[i].channel = DRUMS =>
                \* 4 beats last beatDuration * 4 ms, the number stored here
                ElapsedFrom(beatTracker, lastOp.log[i].start)
                    % beatTracker.beatDuration = 0

(***************************************************************************)
(* Two calls of startGame()                                                *)
(***************************************************************************)
\* C37: a startGame() made while an earlier one awaits initialize(), or while
\* playing, has no effect: between handlers the transport's origin was set once
\* for the run (no start() on a running transport), isPlaying implies
\* beatTracker.isRunning, and Game.isPaused equals beatTracker.isPaused.
C37_SecondStartGameHasNoEffect ==
    /\ run.undisturbed
    /\ game.isPlaying => beatTracker.isRunning
    /\ game.isPaused = beatTracker.isPaused

(***************************************************************************)
(* The game while paused                                                   *)
(***************************************************************************)
\* C38: between handlers, while the game is paused, the active-loop map is empty,
\* the scheduler is Idle with no timer pending and the input handler is detached;
\* and from a paused state to the next paused state no group is installed and the
\* position getCurrentBeatInfo returns stays the same.
C38_PausedIsQuiet ==
    /\ []((game.isPlaying /\ game.isPaused) =>
            /\ audioEngine.activeLoops = {}
            /\ ~audioEngine.isDrumsPlaying
            /\ audioEngine.schedulerTimerId = Null
            /\ timers = {}
            /\ ~inputHandler.listening)
    /\ [][(game.isPlaying /\ game.isPaused /\ game'.isPlaying /\ game'.isPaused) =>
            /\ DOMAIN groups' \subseteq DOMAIN groups
            /\ GetCurrentBeatInfo(beatTracker', now', ctx')
                 = GetCurrentBeatInfo(beatTracker, now, ctx)]_vars

(***************************************************************************)
(* The three queries of the transport at one instant                       *)
(***************************************************************************)
\* C39: with an audio clock attached and one time base, on a running transport
\* (paused or not) whose elapsed beat count is not negative, evaluateTiming and
\* getCurrentBeatInfo called at the same instant agree: the beat index
\* evaluateTiming rounds to (4 * barNumber + nearestBeat - 1) is totalBeats rounded
\* half up, and getTimeToNextBeat is (1 - progress) * beatDuration.
C39_QueriesAgree ==
    (/\ lastOp.op \in {"evaluateTiming", "getTimeToNextBeat"}
     /\ lastOp.before.isRunning
     /\ lastOp.before.audioCtx
     /\ OneBase
     /\ lastOp.info.totalBeats[1] >= 0) =>
        /\ lastOp.op = "evaluateTiming" =>
              4 * lastOp.result.barNumber + lastOp.result.nearestBeat - 1
                = MathRound(lastOp.info.totalBeats[1], lastOp.info.totalBeats[2])
        /\ lastOp.op = "getTimeToNextBeat" =>
              \* the result is in quarters of a ms, as beatDuration is
              lastOp.result * lastOp.info.progress[2]
                = (lastOp.info.progress[2] - lastOp.info.progress[1])
                    * lastOp.before.beatDuration

====
